---------------------------- MODULE Spec2Model ----------------------------
(***************************************************************************)
(* A model of the Proof-of-History entry code of core/src/entry.rs:        *)
(* construction and verification of a single Entry, verification of an     *)
(* entry slice, and the prefix search num_will_fit.                        *)
(*                                                                         *)
(* Hashes are modelled as terms of a free algebra, encoded as sequences    *)
(* of naturals in prefix form, so that two hashes are equal exactly when   *)
(* they were computed from the same inputs in the same way (SHA-256        *)
(* treated as collision-free).                                             *)
(***************************************************************************)
EXTENDS Integers, Sequences, FiniteSets, TLC

VARIABLES
    \* ---- one Entry: its construction, an attack on it, its verification
    args,        \* the arguments of the constructor call
    cursor,      \* the caller's (start_hash, num_hashes), which new_mut writes
    entry,       \* the Entry under test (NoEntry before construction)
    epc,         \* "start" | "built" | "panicked" | "returned" | "diverges"
    attack,      \* what was done to the entry's transactions after construction
    checked,     \* the last Entry::verify call and its result
    entries,     \* the Vec<Entry> next_entries returned
    \* ---- an entry slice and its (parallel) verification
    slice,       \* the entries
    slice_start, \* the start hash the slice is verified against
    slice_cur,   \* the hash consecutive construction continues from
    slice_info,  \* ghost: built consecutively?  which hash field was replaced?
    pending,     \* pairs EntrySlice::verify has not evaluated yet
    slice_res,   \* "none" | "running" | "true" | "false"
    \* ---- num_will_fit
    fit,         \* the inputs and the loop state of num_will_fit
    \* ---- split_serializable_chunks
    chunking,    \* the inputs, chunk_start and the slices handed to the converter
    \* ---- to_blobs and reconstruct_entries_from_blobs
    wire,        \* the entries sent, the blobs on the way, what was reconstructed
    \* ---- PohService and the PohRecorder it shares with the callers of record
    recorder,    \* the PohRecorder behind the mutex
    sent,        \* what the recorder has put on the entry channel, in order
    service,     \* the tick_producer thread: where it is, its locals
    poh_exit,    \* the exit flag of the service
    last,        \* ghost: the last call on the recorder, and the state it found
    \* ---- the recorder's mutex, the service thread and the callers waiting for it
    sync,        \* who holds the mutex, where each thread is, the exit flag
    \* ---- the config program and the account it stores to
    config,      \* account 0, the instruction at hand, the result of the last call
    \* ---- SendTransactionService
    sts,         \* the retry thread, its queue and channel, the banks it reads
    \* ---- bs91
    bs91,        \* two u64 values and their encodings
    \* ---- ledger-tool transaction history
    history      \* the files under h/, the injest_block call at hand, its course

entryVars == <<args, cursor, entry, epc, attack, checked, entries>>
sliceVars == <<slice, slice_start, slice_cur, slice_info, pending, slice_res>>
fitVars   == <<fit>>
chunkVars == <<chunking>>
wireVars  == <<wire>>
pohVars   == <<recorder, sent, service, poh_exit, last>>
syncVars  == <<sync>>
configVars == <<config>>
sendVars  == <<sts>>
bs91Vars  == <<bs91>>
historyVars == <<history>>
vars      == <<entryVars, sliceVars, fitVars, chunkVars, wireVars, pohVars,
               syncVars, configVars, sendVars, bs91Vars, historyVars>>

\* what the actions of one specification leave alone
notEntry == <<sliceVars, fitVars, chunkVars, wireVars, pohVars,
             syncVars, configVars, sendVars, bs91Vars, historyVars>>
notSlice == <<entryVars, fitVars, chunkVars, wireVars, pohVars,
             syncVars, configVars, sendVars, bs91Vars, historyVars>>
notFit   == <<entryVars, sliceVars, chunkVars, wireVars, pohVars,
             syncVars, configVars, sendVars, bs91Vars, historyVars>>
notChunk == <<entryVars, sliceVars, fitVars, wireVars, pohVars,
             syncVars, configVars, sendVars, bs91Vars, historyVars>>
notWire  == <<entryVars, sliceVars, fitVars, chunkVars, pohVars,
             syncVars, configVars, sendVars, bs91Vars, historyVars>>
notPoh   == <<entryVars, sliceVars, fitVars, chunkVars, wireVars,
             syncVars, configVars, sendVars, bs91Vars, historyVars>>
notSync  == <<entryVars, sliceVars, fitVars, chunkVars, wireVars, pohVars,
             configVars, sendVars, bs91Vars, historyVars>>
notConfig == <<entryVars, sliceVars, fitVars, chunkVars, wireVars, pohVars,
             syncVars, sendVars, bs91Vars, historyVars>>
notSend  == <<entryVars, sliceVars, fitVars, chunkVars, wireVars, pohVars,
             syncVars, configVars, bs91Vars, historyVars>>
notBs91  == <<entryVars, sliceVars, fitVars, chunkVars, wireVars, pohVars,
             syncVars, configVars, sendVars, historyVars>>
notHistory == <<entryVars, sliceVars, fitVars, chunkVars, wireVars, pohVars,
               syncVars, configVars, sendVars, bs91Vars>>

---------------------------------------------------------------------------
(* Bounds of the model *)

\* num_hashes arguments range over 0..MaxNumHashes
MaxNumHashes == 2
\* transaction lists handed to a constructor hold at most MaxTxs transactions
MaxTxs == 2
\* the payload limit of a blob, scaled down so that lists of MaxTxs
\* transactions fall on both sides of it
BLOB_DATA_SIZE == 320

\* an entry slice holds at most MaxEntries entries
MaxEntries == 2
\* at most MaxWireEntries entries are turned into blobs at once
MaxWireEntries == 3
\* num_will_fit is given at most MaxItems items
MaxItems == 6
\* the sizes of the prefixes and the size limit range over 0..MaxSize
MaxSize == 2
\* split_serializable_chunks is given at most MaxChunkItems items
MaxChunkItems == 4
\* its termination is followed for at most MaxChunkLiveItems items
MaxChunkLiveItems == 3
\* the times the service is counted taking the mutex ahead of a waiting caller
MaxPassed == 2
\* store requests carry sequence numbers up to MaxSeq and at most MaxDataLen bytes
MaxSeq == 3
MaxDataLen == 2
\* the root bank's slot goes up to MaxRootSlot
MaxRootSlot == 1

\* a block of the ledger has up to MaxBlockTransactions transactions
MaxBlockTransactions == 2

\* injest_block is called up to MaxInjestCalls times
MaxInjestCalls == 2

\* a new config account gets 1..MaxLamports lamports
MaxLamports == 2
\* the service is followed for MaxTicks ticks
MaxTicks == 4
\* record and set_working_bank are called at most MaxCalls times in all
MaxCalls == 3

---------------------------------------------------------------------------
(* solana_sdk::hash, as terms *)

\* a 32-byte value that is not the output of any hash computation of the model
HashAtom(k) == <<0, k>>

\* Hash::default()
HashDefault == HashAtom(0)

\* solana_sdk::hash::hash(&x)
hash(x) == <<1>> \o x

\* solana_sdk::hash::hashv(&[&x, &y])
hashv(x, y) == <<2>> \o x \o y

\* Hasher::default(): nothing hashed yet
HasherDefault == <<>>

\* Hasher::hash(&bytes): feeds one fixed-length value
HasherHash(hasher, bytes) == Append(hasher, bytes)

\* Hasher::result()
HasherResult(hasher) == <<3, Len(hasher)>> \o hasher

---------------------------------------------------------------------------
(* crate::poh::Poh *)

Poh_new(h, tick_height) == [hash |-> h, num_hashes |-> 0, tick_height |-> tick_height]

\* n applications of hash: each puts the tag of hash in front of its argument
HashTimes(h, n) == [i \in 1..n |-> Head(hash(h))] \o h

\* poh.hash(n)
Poh_hash(poh, n) ==
    [poh EXCEPT !.hash = HashTimes(@, n), !.num_hashes = @ + n]

\* poh.tick(): the Poh afterwards and the PohEntry returned
Poh_tick(poh) ==
    LET h == hash(poh.hash)
    IN  [poh   |-> [poh EXCEPT !.hash = h, !.num_hashes = 0, !.tick_height = @ + 1],
         entry |-> [num_hashes |-> poh.num_hashes + 1, hash |-> h]]

\* poh.record(mixin): the Poh afterwards and the PohEntry returned
Poh_record(poh, mixin) ==
    LET h == hashv(poh.hash, mixin)
    IN  [poh   |-> [poh EXCEPT !.hash = h, !.num_hashes = 0],
         entry |-> [num_hashes |-> poh.num_hashes + 1, hash |-> h]]

---------------------------------------------------------------------------
(* Transactions *)

\* A transaction: its signatures (signature ids, possibly none) and its
\* message (a message id).  Two transactions may share their first
\* signature and differ elsewhere.
Signatures == {<<>>, <<1>>, <<2>>}
Messages == {1, 2}
Transactions == [signatures : Signatures, message : Messages]

\* bincode::serialized_size(tx): a length byte, 64 bytes a signature, the message
serialized_size_tx(tx) == 1 + 64 * Len(tx.signatures) + 40 * tx.message

\* bincode::serialized_size(&vec![Entry {0, Hash::default(), vec![]}]):
\* vector length (8), num_hashes (8), hash (32), transactions length (8)
serialized_size_empty_entry_vec == 8 + 8 + 32 + 8

RECURSIVE SumSizes(_)
SumSizes(txs) ==
    IF txs = <<>> THEN 0 ELSE serialized_size_tx(Head(txs)) + SumSizes(Tail(txs))

\* mutant: the size of the Entry alone, without the length of the vector
\* that holds it
serialized_to_blob_size_of_entry(txs) == 8 + 32 + 8 + SumSizes(txs)

\* Entry::serialized_to_blob_size
serialized_to_blob_size(txs) == serialized_size_empty_entry_vec + SumSizes(txs)

RECURSIVE SeqsUpTo(_, _)
SeqsUpTo(S, n) ==
    IF n = 0 THEN {<<>>}
    ELSE LET shorter == SeqsUpTo(S, n - 1)
         IN  shorter \cup {Append(s, x) : s \in {t \in shorter : Len(t) = n - 1}, x \in S}

---------------------------------------------------------------------------
(* Entry *)

NoHash == <<>>
NoEntry == [num_hashes |-> 0, hash |-> NoHash, transactions |-> <<>>]

RECURSIVE HashFirstOnly(_, _)
HashFirstOnly(hasher, txs) ==
    IF txs = <<>> THEN hasher
    ELSE IF Head(txs).signatures # <<>>
      THEN HasherHash(hasher, Head(txs).signatures[1])
      ELSE hasher

RECURSIVE HashEachUnchecked(_, _)
HashEachUnchecked(hasher, txs) ==
    IF txs = <<>> THEN hasher
    ELSE LET tx == Head(txs)
         IN  HashEachUnchecked(HasherHash(hasher, IF tx.signatures # <<>>
                                                    THEN tx.signatures[1] ELSE 0),
                               Tail(txs))

RECURSIVE HashEach(_, _)
HashEach(hasher, txs) ==
    IF txs = <<>> THEN hasher
    ELSE LET tx == Head(txs)
         IN  HashEach(IF tx.signatures # <<>>
                        THEN HasherHash(hasher, tx.signatures[1])
                        ELSE hasher,
                      Tail(txs))

\* mutant: only the first transaction's signature is hashed
hash_transactions_first_only(txs) == HasherResult(HashFirstOnly(HasherDefault, txs))

\* mutant: a transaction without signatures is hashed as a default signature
hash_transactions_default_sig(txs) == HasherResult(HashEachUnchecked(HasherDefault, txs))

hash_transactions(txs) == HasherResult(HashEach(HasherDefault, txs))

saturating_sub(a, b) == IF a >= b THEN a - b ELSE 0

\* mutant: the transactions are never mixed in
next_hash_tick_only(start_hash, num_hashes, txs) ==
    IF num_hashes = 0 /\ txs = <<>> THEN start_hash
    ELSE Poh_tick(Poh_hash(Poh_new(start_hash, 0), saturating_sub(num_hashes, 1))).entry.hash

\* mutant: num_hashes hashes before the final one, instead of num_hashes - 1
next_hash_no_sub(start_hash, num_hashes, txs) ==
    IF num_hashes = 0 /\ txs = <<>> THEN start_hash
    ELSE LET poh == Poh_hash(Poh_new(start_hash, 0), num_hashes)
         IN  IF txs = <<>>
               THEN Poh_tick(poh).entry.hash
               ELSE Poh_record(poh, hash_transactions(txs)).entry.hash

\* mutant: a zero num_hashes gives start_hash back, transactions or not
next_hash_zero_returns_start(start_hash, num_hashes, txs) ==
    IF num_hashes = 0 THEN start_hash
    ELSE LET poh == Poh_hash(Poh_new(start_hash, 0), saturating_sub(num_hashes, 1))
         IN  IF txs = <<>>
               THEN Poh_tick(poh).entry.hash
               ELSE Poh_record(poh, hash_transactions(txs)).entry.hash

next_hash(start_hash, num_hashes, txs) ==
    IF num_hashes = 0 /\ txs = <<>> THEN start_hash
    ELSE LET poh == Poh_hash(Poh_new(start_hash, 0), saturating_sub(num_hashes, 1))
         IN  IF txs = <<>>
               THEN Poh_tick(poh).entry.hash
               ELSE Poh_record(poh, hash_transactions(txs)).entry.hash

\* mutant: the per-entry overhead is left out of the size checked
SizeCheck_no_overhead(txs) == SumSizes(txs) <= BLOB_DATA_SIZE

\* the assert! of Entry::new and Entry::new_mut
SizeCheck(txs) == serialized_to_blob_size(txs) <= BLOB_DATA_SIZE

\* mutant: a zero num_hashes is stored as given when transactions are present
Entry_new_unpromoted(prev_hash, num_hashes, txs) ==
    [num_hashes |-> num_hashes,
     hash |-> next_hash(prev_hash, num_hashes, txs),
     transactions |-> txs]

\* Entry::new, past its assert!
Entry_new(prev_hash, num_hashes, txs) ==
    IF num_hashes = 0 /\ txs = <<>>
      THEN [num_hashes |-> 0, hash |-> prev_hash, transactions |-> txs]
    ELSE IF num_hashes = 0
      THEN [num_hashes |-> 1, hash |-> next_hash(prev_hash, 1, txs), transactions |-> txs]
    ELSE [num_hashes |-> num_hashes,
          hash |-> next_hash(prev_hash, num_hashes, txs),
          transactions |-> txs]

\* mutant: the caller's num_hashes is left as it was
Entry_new_mut_keeps_count(start_hash, num_hashes, txs) ==
    LET e == Entry_new(start_hash, num_hashes, txs)
    IN  [entry |-> e, start_hash |-> e.hash, num_hashes |-> num_hashes]

\* Entry::new_mut, past its assert!: the Entry, and the caller's variables afterwards
Entry_new_mut(start_hash, num_hashes, txs) ==
    LET e == Entry_new(start_hash, num_hashes, txs)
    IN  [entry |-> e, start_hash |-> e.hash, num_hashes |-> 0]

\* mutant: the entry is verified as if it were a tick
Entry_verify_ticks_only(e, start_hash) ==
    e.hash = next_hash(start_hash, e.num_hashes, <<>>)

\* mutant: a mismatch is logged and not returned
Entry_verify_warn_only(e, start_hash) == TRUE

Entry_verify(e, start_hash) ==
    LET ref_hash == next_hash(start_hash, e.num_hashes, e.transactions)
    IN  IF e.hash # ref_hash THEN FALSE ELSE TRUE

Entry_is_tick(e) == e.transactions = <<>>

---------------------------------------------------------------------------
(* num_will_fit and split_serializable_chunks *)

\* num_will_fit up to its loop: num, upper, lower (items is not empty)
FitEnter(len) == [num |-> len, upper |-> len, lower |-> 1, done |-> FALSE]

\* mutant: no bail-out when not even one item fits
FitIterate_no_bail(st, fits) ==
    LET next == IF fits THEN (st.upper + st.num) \div 2 ELSE (st.lower + st.num) \div 2
        moved == IF fits THEN [st EXCEPT !.lower = st.num] ELSE [st EXCEPT !.upper = st.num]
    IN  IF next = st.num THEN [moved EXCEPT !.done = TRUE] ELSE [moved EXCEPT !.num = next]

\* mutant: after a prefix that does not fit, the prefix one item shorter is tried
FitIterate_linear(st, fits) ==
    IF fits
      THEN LET next == (st.upper + st.num) \div 2
           IN  IF next = st.num
                 THEN [st EXCEPT !.lower = st.num, !.done = TRUE]
                 ELSE [st EXCEPT !.lower = st.num, !.num = next]
    ELSE IF st.num = 1
      THEN [st EXCEPT !.num = 0, !.done = TRUE]
    ELSE [st EXCEPT !.upper = st.num, !.num = st.num - 1]

\* One iteration of the loop of num_will_fit; fits is the outcome of
\* serialized_size(&serializables[..num]) <= max_size
FitIterate(st, fits) ==
    IF fits
      THEN LET next == (st.upper + st.num) \div 2
           IN  IF next = st.num
                 THEN [st EXCEPT !.lower = st.num, !.done = TRUE]
                 ELSE [st EXCEPT !.lower = st.num, !.num = next]
    ELSE IF st.num = 1
      THEN [st EXCEPT !.num = 0, !.done = TRUE]
    ELSE LET next == (st.lower + st.num) \div 2
         IN  IF next = st.num
               THEN [st EXCEPT !.upper = st.num, !.done = TRUE]
               ELSE [st EXCEPT !.upper = st.num, !.num = next]

\* The size function handed to num_will_fit and split_serializable_chunks is
\* a function on the contiguous slices of the items.
Slices(items) == {SubSeq(items, i, j) : i \in 1..(Len(items) + 1), j \in 0..Len(items)}

\* mutant: one item at a time, no search for a longer prefix
num_will_fit_one(serializables, max_size, serialized_size) ==
    IF serializables = <<>> THEN 0
    ELSE IF serialized_size[SubSeq(serializables, 1, 1)] <= max_size THEN 1 ELSE 0

num_will_fit(serializables, max_size, serialized_size) ==
    LET RECURSIVE loop(_)
        loop(st) ==
            IF st.done THEN st.num
            ELSE loop(FitIterate(st,
                        serialized_size[SubSeq(serializables, 1, st.num)] <= max_size))
    IN  IF serializables = <<>> THEN 0 ELSE loop(FitEnter(Len(serializables)))

\* mutant: an item that does not fit is handed over alone
next_chunk_end_one_at_least(serializables, max_size, serialized_size, chunk_start) ==
    LET n == num_will_fit(SubSeq(serializables, chunk_start + 1, Len(serializables)),
                          max_size, serialized_size)
    IN  chunk_start + (IF n = 0 THEN 1 ELSE n)

\* mutant: chunk_start is not added to what num_will_fit returns
next_chunk_end_unshifted(serializables, max_size, serialized_size, chunk_start) ==
    num_will_fit(SubSeq(serializables, chunk_start + 1, Len(serializables)),
                 max_size, serialized_size)

\* chunk_end of one iteration of split_serializable_chunks
next_chunk_end(serializables, max_size, serialized_size, chunk_start) ==
    chunk_start + num_will_fit(SubSeq(serializables, chunk_start + 1, Len(serializables)),
                               max_size, serialized_size)

\* mutant: the slice stops one item short of chunk_end
chunk_slice_short(serializables, chunk_start, chunk_end) ==
    SubSeq(serializables, chunk_start + 1, chunk_end - 1)

\* &serializables[chunk_start..chunk_end], the slice handed to the converter
chunk_slice(serializables, chunk_start, chunk_end) ==
    SubSeq(serializables, chunk_start + 1, chunk_end)

\* split_serializable_chunks: the slices handed to the converter, in order.
\* When num_will_fit returns 0 the iteration leaves chunk_start where it was
\* and the loop runs for ever, handing the converter an empty slice each time.
split_serializable_chunks(serializables, max_size, serialized_size) ==
    LET RECURSIVE loop(_, _)
        loop(chunk_start, result) ==
            IF ~(chunk_start < Len(serializables))
              THEN [chunks |-> result, diverges |-> FALSE]
            ELSE LET chunk_end == next_chunk_end(serializables, max_size,
                                                 serialized_size, chunk_start)
                     chunk == chunk_slice(serializables, chunk_start, chunk_end)
                 IN  IF chunk_end = chunk_start
                       THEN [chunks |-> Append(result, chunk), diverges |-> TRUE]
                       ELSE loop(chunk_end, Append(result, chunk))
    IN  loop(0, <<>>)

\* The converter of next_entries_mut, Entry::new_mut on the shared
\* (start_hash, num_hashes), applied to the chunks in order
RECURSIVE ConvertChunks(_, _, _, _)
ConvertChunks(chunks, start_hash, num_hashes, result) ==
    IF chunks = <<>>
      THEN [entries |-> result, start_hash |-> start_hash, num_hashes |-> num_hashes,
            panicked |-> FALSE]
    ELSE IF ~SizeCheck(Head(chunks))
      THEN [entries |-> result, start_hash |-> start_hash, num_hashes |-> num_hashes,
            panicked |-> TRUE]
    ELSE LET r == Entry_new_mut(start_hash, num_hashes, Head(chunks))
         IN  ConvertChunks(Tail(chunks), r.start_hash, r.num_hashes, Append(result, r.entry))

\* next_entries_mut: the entries made, the caller's variables afterwards,
\* and how the call ends ("returned", "panicked", or "diverges": it never returns)
next_entries_mut(start_hash, num_hashes, txs) ==
    LET size  == [s \in Slices(txs) |-> serialized_to_blob_size(s)]
        split == split_serializable_chunks(txs, BLOB_DATA_SIZE, size)
        conv  == ConvertChunks(split.chunks, start_hash, num_hashes, <<>>)
    IN  [entries |-> conv.entries, start_hash |-> conv.start_hash,
         num_hashes |-> conv.num_hashes,
         outcome |-> IF conv.panicked THEN "panicked"
                     ELSE IF split.diverges THEN "diverges" ELSE "returned"]

next_entries(start_hash, num_hashes, txs) ==
    LET r == next_entries_mut(start_hash, num_hashes, txs)
    IN  [entries |-> r.entries, outcome |-> r.outcome]

---------------------------------------------------------------------------
(* crate::poh_recorder::PohRecorder *)

\* no working bank, and a working bank: the slot and the tick heights of the
\* block being produced
NoBank == [present |-> FALSE, slot |-> 0, min_tick_height |-> 0, max_tick_height |-> 0]

WorkingBank(slot, min_tick_height, max_tick_height) ==
    [present |-> TRUE, slot |-> slot,
     min_tick_height |-> min_tick_height, max_tick_height |-> max_tick_height]

PohRecorder_new(tick_height, last_entry_hash) ==
    [poh |-> Poh_new(last_entry_hash, tick_height), working_bank |-> NoBank]

\* set_working_bank(working_bank)
PohRecorder_set_working_bank(rec, working_bank) ==
    [rec EXCEPT !.working_bank = working_bank]

\* mutant: the hashes are applied and not counted
PohRecorder_hash_uncounted(rec, n) == [rec EXCEPT !.poh.hash = HashTimes(@, n)]

\* hash(n): the cursor advances, nothing is sent
PohRecorder_hash(rec, n) == [rec EXCEPT !.poh = Poh_hash(@, n)]

\* record is accepted for the slot of a working bank that is in place and
\* has not reached its maximum tick height
RecordAccepted(rec, slot) ==
    /\ rec.working_bank.present
    /\ slot = rec.working_bank.slot
    /\ rec.poh.tick_height < rec.working_bank.max_tick_height

\* mutant: the slot of the caller is not compared with the working bank's
PohRecorder_record_any_slot(rec, slot, mixin, transactions) ==
    IF ~(rec.working_bank.present
         /\ rec.poh.tick_height < rec.working_bank.max_tick_height)
      THEN [recorder |-> rec, ok |-> FALSE, sent |-> <<>>]
      ELSE LET r == Poh_record(rec.poh, mixin)
           IN  [recorder |-> [rec EXCEPT !.poh = r.poh], ok |-> TRUE,
                sent |-> <<[entry |-> [num_hashes |-> r.entry.num_hashes,
                                       hash |-> r.entry.hash,
                                       transactions |-> transactions],
                            mixin |-> mixin]>>]

\* mutant: a rejected record takes the working bank away
PohRecorder_record_clears(rec, slot, mixin, transactions) ==
    IF ~RecordAccepted(rec, slot)
      THEN [recorder |-> [rec EXCEPT !.working_bank = NoBank], ok |-> FALSE, sent |-> <<>>]
      ELSE LET r == Poh_record(rec.poh, mixin)
           IN  [recorder |-> [rec EXCEPT !.poh = r.poh], ok |-> TRUE,
                sent |-> <<[entry |-> [num_hashes |-> r.entry.num_hashes,
                                       hash |-> r.entry.hash,
                                       transactions |-> transactions],
                            mixin |-> mixin]>>]

\* mutant: the entry carries the pending hashes without the mixing one
PohRecorder_record_miscounts(rec, slot, mixin, transactions) ==
    IF ~RecordAccepted(rec, slot)
      THEN [recorder |-> rec, ok |-> FALSE, sent |-> <<>>]
      ELSE LET r == Poh_record(rec.poh, mixin)
           IN  [recorder |-> [rec EXCEPT !.poh = r.poh], ok |-> TRUE,
                sent |-> <<[entry |-> [num_hashes |-> rec.poh.num_hashes,
                                       hash |-> r.entry.hash,
                                       transactions |-> transactions],
                            mixin |-> mixin]>>]

\* record(slot, mixin, transactions): the recorder afterwards, whether the
\* call succeeded, and what it put on the channel (the entry; mixin is kept
\* with it as a ghost)
PohRecorder_record(rec, slot, mixin, transactions) ==
    IF ~RecordAccepted(rec, slot)
      THEN [recorder |-> rec, ok |-> FALSE, sent |-> <<>>]
      ELSE LET r == Poh_record(rec.poh, mixin)
           IN  [recorder |-> [rec EXCEPT !.poh = r.poh], ok |-> TRUE,
                sent |-> <<[entry |-> [num_hashes |-> r.entry.num_hashes,
                                       hash |-> r.entry.hash,
                                       transactions |-> transactions],
                            mixin |-> mixin]>>]

\* mutant: the working bank is kept one tick past its maximum tick height
PohRecorder_tick_late(rec) ==
    LET r       == Poh_tick(rec.poh)
        reached == /\ rec.working_bank.present
                   /\ r.poh.tick_height > rec.working_bank.max_tick_height
    IN  [recorder |-> [rec EXCEPT !.poh = r.poh,
                                  !.working_bank = IF reached THEN NoBank ELSE @],
         sent |-> <<[entry |-> [num_hashes |-> r.entry.num_hashes, hash |-> r.entry.hash,
                                transactions |-> <<>>],
                     mixin |-> NoHash]>>]

\* tick(): a tick entry is sent, the tick height advances, and a working
\* bank whose maximum tick height is reached is cleared
PohRecorder_tick(rec) ==
    LET r       == Poh_tick(rec.poh)
        reached == /\ rec.working_bank.present
                   /\ r.poh.tick_height >= rec.working_bank.max_tick_height
    IN  [recorder |-> [rec EXCEPT !.poh = r.poh,
                                  !.working_bank = IF reached THEN NoBank ELSE @],
         sent |-> <<[entry |-> [num_hashes |-> r.entry.num_hashes, hash |-> r.entry.hash,
                                transactions |-> <<>>],
                     mixin |-> NoHash]>>]

---------------------------------------------------------------------------
(* PohService::tick_producer *)

NUM_HASHES_PER_BATCH == 128

\* mutant: all the hashes of a tick in one batch
num_hashes_batch_whole(num_hashes) == num_hashes

\* std::cmp::min(num_hashes, NUM_HASHES_PER_BATCH)
num_hashes_batch(num_hashes) ==
    IF num_hashes <= NUM_HASHES_PER_BATCH THEN num_hashes ELSE NUM_HASHES_PER_BATCH

---------------------------------------------------------------------------
(* The config program: ConfigState and process_instruction *)

\* u64 as bincode writes it: eight bytes, the least significant first
EncodeU64(n) ==
    LET rest[i \in 1..8] == IF i = 1 THEN n ELSE rest[i - 1] \div 256
    IN  [i \in 1..8 |-> rest[i] % 256]

DecodeU64(bytes) ==
    LET sum[i \in 1..9] == IF i = 9 THEN 0 ELSE bytes[i] + 256 * sum[i + 1]
    IN  sum[1]

\* ConfigState::new(data_len)
ConfigState_new(data_len) == [seq |-> 0, data |-> [i \in 1..data_len |-> 0]]

\* #[derive(Serialize)] under bincode: seq, the length of data, the bytes of data
ConfigState_bytes(state) ==
    EncodeU64(state.seq) \o EncodeU64(Len(state.data)) \o state.data

\* ConfigState::max_size(data_len)
ConfigState_max_size(data_len) == Len(ConfigState_bytes(ConfigState_new(data_len)))

\* bincode::deserialize: the fields are read from the front of the input;
\* what follows them is not looked at, and input that ends early is an error
bincode_deserialize(input) ==
    IF Len(input) < 16 THEN [ok |-> FALSE, value |-> ConfigState_new(0)]
    ELSE LET seq == DecodeU64(SubSeq(input, 1, 8))
             len == DecodeU64(SubSeq(input, 9, 16))
         IN  IF Len(input) < 16 + len
               THEN [ok |-> FALSE, value |-> ConfigState_new(0)]
               ELSE [ok |-> TRUE,
                     value |-> [seq |-> seq, data |-> SubSeq(input, 17, 16 + len)]]

\* ConfigState::deserialize(input)
ConfigState_deserialize(input) ==
    LET r == bincode_deserialize(input)
    IN  [result |-> IF r.ok THEN "Ok" ELSE "InvalidAccountData", value |-> r.value]

\* ConfigState::serialize(&self, output): serialize_into writes into the
\* front of the slice; when the slice is too short the write stops where
\* the slice ends, with an error that is not SizeLimit
ConfigState_serialize(state, output) ==
    LET bytes == ConfigState_bytes(state)
    IN  IF Len(bytes) <= Len(output)
          THEN [result |-> "Ok",
                output |-> bytes \o SubSeq(output, Len(bytes) + 1, Len(output))]
          ELSE [result |-> "GenericError", output |-> SubSeq(bytes, 1, Len(output))]

\* mutant: no check of the sequence number
ConfigState_store_unchecked(self, new_config_state) ==
    [result |-> "Ok", self |-> new_config_state]

\* mutant: the same sequence number is accepted again
ConfigState_store_same_seq(self, new_config_state) ==
    IF new_config_state.seq < self.seq
      THEN [result |-> "InvalidArgument", self |-> self]
      ELSE [result |-> "Ok", self |-> new_config_state]

\* ConfigState::store(&mut self, new_config_state)
ConfigState_store(self, new_config_state) ==
    IF new_config_state.seq <= self.seq
      THEN [result |-> "InvalidArgument", self |-> self]
      ELSE [result |-> "Ok", self |-> new_config_state]

CONFIG_PROGRAM_ID == [i \in 1..32 |-> IF i = 1 THEN 133 ELSE 0]

\* Pubkey::default(), which is the system program's id as well
Pubkey_default == [i \in 1..32 |-> 0]

\* check_id(program_id)
check_id(program_id) == program_id = CONFIG_PROGRAM_ID

\* mutant: the signature is looked for before the owner
process_instruction_signer_first(account, data) ==
    IF ~account.signer THEN [result |-> "MissingRequiredSignature", data |-> account.data]
    ELSE IF ~check_id(account.owner)
      THEN [result |-> "IncorrectProgramId", data |-> account.data]
    ELSE LET config_state == ConfigState_deserialize(account.data)
             new_config_state == bincode_deserialize(data)
             stored == ConfigState_store(config_state.value, new_config_state.value)
             written == ConfigState_serialize(stored.self, account.data)
         IN  IF config_state.result # "Ok"
               THEN [result |-> "InvalidAccountData", data |-> account.data]
             ELSE IF ~new_config_state.ok
               THEN [result |-> "InvalidInstructionData", data |-> account.data]
             ELSE IF stored.result # "Ok"
               THEN [result |-> stored.result, data |-> account.data]
             ELSE [result |-> written.result, data |-> written.output]

\* process_instruction(_program_id, keyed_accounts, data), for
\* keyed_accounts[0] = account: the result and the account's data afterwards
process_instruction(account, data) ==
    IF ~check_id(account.owner)
      THEN [result |-> "IncorrectProgramId", data |-> account.data]
    ELSE IF ~account.signer
      THEN [result |-> "MissingRequiredSignature", data |-> account.data]
    ELSE LET config_state == ConfigState_deserialize(account.data)
             new_config_state == bincode_deserialize(data)
             stored == ConfigState_store(config_state.value, new_config_state.value)
             written == ConfigState_serialize(stored.self, account.data)
         IN  IF config_state.result # "Ok"
               THEN [result |-> "InvalidAccountData", data |-> account.data]
             ELSE IF ~new_config_state.ok
               THEN [result |-> "InvalidInstructionData", data |-> account.data]
             ELSE IF stored.result # "Ok"
               THEN [result |-> stored.result, data |-> account.data]
             ELSE [result |-> written.result, data |-> written.output]

---------------------------------------------------------------------------
(* SendTransactionService: the retry queue and process_transactions *)

\* the maximum size of the transaction queue, scaled down from 10,000 so
\* that receipts meet a full queue
MAX_TRANSACTION_QUEUE_SIZE == 2

\* the signatures transactions are told apart by
SendSignatures == {1, 2, 3}

\* TransactionInfo: the wire transaction is known by its signature
TransactionInfos ==
    [signature : SendSignatures, last_valid_slot : 0..MaxRootSlot, retry_enabled : BOOLEAN]

\* nothing sent: how often each signature's wire transaction went to the socket
NoSends == [s \in SendSignatures |-> 0]

\* ProcessTransactionsResult::default()
ProcessTransactionsResult_default ==
    [rooted |-> 0, expired |-> 0, retried |-> 0, failed |-> 0, retained |-> 0]

\* mutant: an expired transaction unknown to the working bank is retried
retain_transaction_status_first(signature, transaction_info, working_bank, root_bank) ==
    IF signature \in root_bank.signatures THEN "rooted"
    ELSE IF working_bank[signature] = "none" THEN "retried"
    ELSE IF transaction_info.last_valid_slot < root_bank.slot THEN "expired"
    ELSE IF working_bank[signature] = "err" THEN "failed"
    ELSE "retained"

\* mutant: a transaction expires one slot late
retain_transaction_expires_late(signature, transaction_info, working_bank, root_bank) ==
    IF signature \in root_bank.signatures THEN "rooted"
    ELSE IF transaction_info.last_valid_slot + 1 < root_bank.slot THEN "expired"
    ELSE IF working_bank[signature] = "none" THEN "retried"
    ELSE IF working_bank[signature] = "err" THEN "failed"
    ELSE "retained"

\* the closure of transactions.retain: the counter it adds to
retain_transaction(signature, transaction_info, working_bank, root_bank) ==
    IF signature \in root_bank.signatures THEN "rooted"
    ELSE IF transaction_info.last_valid_slot < root_bank.slot THEN "expired"
    ELSE IF working_bank[signature] = "none" THEN "retried"
    ELSE IF working_bank[signature] = "err" THEN "failed"
    ELSE "retained"

\* transactions.retain(..) over the entries in keys, in the map's order:
\* the counters, the signatures kept and the sends so far are in acc
RECURSIVE retain_transactions(_, _, _, _, _)
retain_transactions(keys, transactions, working_bank, root_bank, acc) ==
    IF keys = {} THEN acc
    ELSE LET signature == CHOOSE s \in keys : TRUE
             counter   == retain_transaction(signature, transactions[signature],
                                             working_bank, root_bank)
         IN  retain_transactions(keys \ {signature}, transactions, working_bank, root_bank,
                [result |-> [acc.result EXCEPT ![counter] = @ + 1],
                 kept   |-> IF counter \in {"retried", "retained"}
                              THEN acc.kept \cup {signature} ELSE acc.kept,
                 sends  |-> IF counter = "retried"
                              THEN [acc.sends EXCEPT ![signature] = @ + 1]
                              ELSE acc.sends])

\* process_transactions(working_bank, root_bank, .., transactions, ..): the
\* result, the queue afterwards and what went to the socket
process_transactions(working_bank, root_bank, transactions) ==
    LET r == retain_transactions(DOMAIN transactions, transactions, working_bank, root_bank,
                [result |-> ProcessTransactionsResult_default, kept |-> {},
                 sends |-> NoSends])
    IN  [result |-> r.result,
         transactions |-> [s \in r.kept |-> transactions[s]],
         sends |-> r.sends]

\* mutant: the transaction is queued whatever retry_enabled says
receive_always_queues(transactions, transaction_info) ==
    IF Cardinality(DOMAIN transactions) < MAX_TRANSACTION_QUEUE_SIZE
      THEN [s \in DOMAIN transactions \cup {transaction_info.signature} |->
              IF s = transaction_info.signature THEN transaction_info ELSE transactions[s]]
      ELSE transactions

\* the queue after a receipt: transactions.insert(signature, transaction_info)
\* when retry is enabled and the queue is below its maximum
receive(transactions, transaction_info) ==
    IF transaction_info.retry_enabled
         /\ Cardinality(DOMAIN transactions) < MAX_TRANSACTION_QUEUE_SIZE
      THEN [s \in DOMAIN transactions \cup {transaction_info.signature} |->
              IF s = transaction_info.signature THEN transaction_info ELSE transactions[s]]
      ELSE transactions

---------------------------------------------------------------------------
(* ledger-tool bs91: the hybrid base91 encoding of u64 *)

\* BASE91_CHARSET, the bytes of
\* b" !\"#$%&'()*+,-0123456789;<=>?@ABCDEFGHIJKLMNOPQRSTUVWXYZ[]^_`abcdefghijklmnopqrstuvwxyz{|}~"
BASE91_CHARSET ==
    <<32, 33, 34, 35, 36, 37, 38, 39, 40, 41, 42, 43, 44, 45,
      48, 49, 50, 51, 52, 53, 54, 55, 56, 57,
      59, 60, 61, 62, 63, 64,
      65, 66, 67, 68, 69, 70, 71, 72, 73, 74, 75, 76, 77,
      78, 79, 80, 81, 82, 83, 84, 85, 86, 87, 88, 89, 90,
      91, 93, 94, 95, 96,
      97, 98, 99, 100, 101, 102, 103, 104, 105, 106, 107, 108, 109,
      110, 111, 112, 113, 114, 115, 116, 117, 118, 119, 120, 121, 122,
      123, 124, 125, 126>>

\* a u64 is kept as its four 16-bit limbs, least significant first
\* value & 0x1FFF
U64_and_1FFF(value) == value[1] % 8192

\* value >> 13: each limb gives its top three bits and takes the low
\* thirteen of the limb above
U64_shr_13(value) ==
    [i \in 1..4 |->
       (value[i] \div 8192) + (IF i < 4 THEN (value[i + 1] % 8192) * 8 ELSE 0)]

\* a < b on u64
U64_lt(a, b) ==
    \E i \in 1..4 :
       /\ a[i] < b[i]
       /\ \A j \in (i + 1)..4 : a[j] = b[j]

\* s < t on strings: the byte-wise lexical order of str
str_lt(s, t) ==
    \/ \E i \in 1..Len(s) :
          /\ i <= Len(t)
          /\ s[i] < t[i]
          /\ \A j \in 1..(i - 1) : s[j] = t[j]
    \/ /\ Len(s) < Len(t)
       /\ \A j \in 1..Len(s) : s[j] = t[j]

\* b"\0\0/\0\0/\0\0/\0\0/\0\0"
encode_u64_template == <<0, 0, 47, 0, 0, 47, 0, 0, 47, 0, 0, 47, 0, 0>>

\* one pass of the loop of encode_u64 at offset i (from 0) of s
encode_u64_chunk(acc, i) ==
    LET b == U64_and_1FFF(acc.value)
    IN  [value |-> U64_shr_13(acc.value),
         s |-> [acc.s EXCEPT ![i + 1] = BASE91_CHARSET[(b \div 91) + 1],
                             ![i + 2] = BASE91_CHARSET[(b % 91) + 1]]]

RECURSIVE encode_u64_loop(_, _)
encode_u64_loop(acc, offsets) ==
    IF offsets = <<>> THEN acc
    ELSE encode_u64_loop(encode_u64_chunk(acc, Head(offsets)), Tail(offsets))

\* mutant: the chunks are written from the front, the least significant first
encode_u64_low_chunk_first(value) ==
    encode_u64_loop([value |-> value, s |-> encode_u64_template], <<0, 3, 6, 9, 12>>).s

\* encode_u64(value): five 13-bit chunks, the least significant written last
\* in the string, each as two characters of the set
encode_u64(value) ==
    encode_u64_loop([value |-> value, s |-> encode_u64_template], <<12, 9, 6, 3, 0>>).s

---------------------------------------------------------------------------
(* Blobs: bincode and crate::packet::Blob *)

\* bincode writes a sequence as its length followed by its items, a hash as
\* its bytes (here the term, behind its length), an integer as itself
EncodeTransaction(tx) == <<Len(tx.signatures)>> \o tx.signatures \o <<tx.message>>

RECURSIVE EncodeTransactions(_)
EncodeTransactions(txs) ==
    IF txs = <<>> THEN <<>>
    ELSE EncodeTransaction(Head(txs)) \o EncodeTransactions(Tail(txs))

EncodeEntry(e) ==
    <<e.num_hashes, Len(e.hash)>> \o e.hash
        \o <<Len(e.transactions)>> \o EncodeTransactions(e.transactions)

RECURSIVE EncodeEntries(_)
EncodeEntries(es) ==
    IF es = <<>> THEN <<>> ELSE EncodeEntry(Head(es)) \o EncodeEntries(Tail(es))

serialize(es) == <<Len(es)>> \o EncodeEntries(es)

\* Readers: from position pos of the bytes, a value and the position after
\* it, or ok = FALSE when the bytes run out
ReadFailed == [ok |-> FALSE, value |-> <<>>, pos |-> 0]

ReadBytes(bytes, pos, n) ==
    IF pos + n - 1 <= Len(bytes)
      THEN [ok |-> TRUE, value |-> SubSeq(bytes, pos, pos + n - 1), pos |-> pos + n]
      ELSE ReadFailed

ReadTransaction(bytes, pos) ==
    LET count == ReadBytes(bytes, pos, 1)
        sigs  == IF count.ok THEN ReadBytes(bytes, count.pos, count.value[1]) ELSE ReadFailed
        msg   == IF sigs.ok THEN ReadBytes(bytes, sigs.pos, 1) ELSE ReadFailed
    IN  IF msg.ok
          THEN [ok |-> TRUE, pos |-> msg.pos,
                value |-> [signatures |-> sigs.value, message |-> msg.value[1]]]
          ELSE ReadFailed

RECURSIVE ReadTransactions(_, _, _, _)
ReadTransactions(bytes, pos, n, acc) ==
    IF n = 0 THEN [ok |-> TRUE, value |-> acc, pos |-> pos]
    ELSE LET tx == ReadTransaction(bytes, pos)
         IN  IF tx.ok THEN ReadTransactions(bytes, tx.pos, n - 1, Append(acc, tx.value))
             ELSE ReadFailed

ReadEntry(bytes, pos) ==
    LET head  == ReadBytes(bytes, pos, 2)
        h     == IF head.ok THEN ReadBytes(bytes, head.pos, head.value[2]) ELSE ReadFailed
        count == IF h.ok THEN ReadBytes(bytes, h.pos, 1) ELSE ReadFailed
        txs   == IF count.ok THEN ReadTransactions(bytes, count.pos, count.value[1], <<>>)
                 ELSE ReadFailed
    IN  IF txs.ok
          THEN [ok |-> TRUE, pos |-> txs.pos,
                value |-> [num_hashes |-> head.value[1], hash |-> h.value,
                           transactions |-> txs.value]]
          ELSE ReadFailed

RECURSIVE ReadEntries(_, _, _, _)
ReadEntries(bytes, pos, n, acc) ==
    IF n = 0 THEN [ok |-> TRUE, value |-> acc, pos |-> pos]
    ELSE LET e == ReadEntry(bytes, pos)
         IN  IF e.ok THEN ReadEntries(bytes, e.pos, n - 1, Append(acc, e.value))
             ELSE ReadFailed

\* bincode::deserialize::<Vec<Entry>>
deserialize(bytes) ==
    LET count == ReadBytes(bytes, 1, 1)
    IN  IF count.ok THEN ReadEntries(bytes, count.pos, count.value[1], <<>>) ELSE ReadFailed

\* Blob::from_serializable: the serialization is the blob's data, its length
\* the blob's size
Blob_from_serializable(es) ==
    LET bytes == serialize(es) IN [data |-> bytes, size |-> Len(bytes)]

\* bincode::serialized_size of the entries: 8 bytes of length, and for each
\* entry num_hashes (8), hash (32), the length of transactions (8) and the
\* transactions
RECURSIVE SumEntrySizes(_)
SumEntrySizes(es) ==
    IF es = <<>> THEN 0
    ELSE 8 + 32 + 8 + SumSizes(Head(es).transactions) + SumEntrySizes(Tail(es))

serialized_size_entries(es) == 8 + SumEntrySizes(es)

\* EntrySlice::to_blobs: the blobs, and whether the call returns at all
to_blobs(es) ==
    LET size  == [s \in Slices(es) |-> serialized_size_entries(s)]
        split == split_serializable_chunks(es, BLOB_DATA_SIZE, size)
    IN  [blobs |-> [k \in 1..Len(split.chunks) |-> Blob_from_serializable(split.chunks[k])],
         diverges |-> split.diverges]

ReconstructError == [done |-> TRUE, ok |-> FALSE, entries |-> <<>>, num_ticks |-> 0]

NumTicks(es) == Cardinality({i \in 1..Len(es) : Entry_is_tick(es[i])})

\* mutant: the entries of a blob replace those collected so far
reconstruct_entries_from_blobs_last(blobs) ==
    LET RECURSIVE loop(_, _, _)
        loop(rest, es, num_ticks) ==
            IF rest = <<>>
              THEN [done |-> TRUE, ok |-> TRUE, entries |-> es, num_ticks |-> num_ticks]
            ELSE LET msg_size    == Head(rest).size
                     new_entries == deserialize(SubSeq(Head(rest).data, 1, msg_size))
                 IN  IF ~new_entries.ok THEN ReconstructError
                     ELSE loop(Tail(rest), new_entries.value,
                               num_ticks + NumTicks(new_entries.value))
    IN  loop(blobs, <<>>, 0)

\* mutant: a blob that does not decode is skipped
reconstruct_entries_from_blobs_skip(blobs) ==
    LET RECURSIVE loop(_, _, _)
        loop(rest, es, num_ticks) ==
            IF rest = <<>>
              THEN [done |-> TRUE, ok |-> TRUE, entries |-> es, num_ticks |-> num_ticks]
            ELSE LET msg_size    == Head(rest).size
                     new_entries == deserialize(SubSeq(Head(rest).data, 1, msg_size))
                 IN  IF ~new_entries.ok THEN loop(Tail(rest), es, num_ticks)
                     ELSE loop(Tail(rest), es \o new_entries.value,
                               num_ticks + NumTicks(new_entries.value))
    IN  loop(blobs, <<>>, 0)

\* reconstruct_entries_from_blobs: Ok((entries, num_ticks)), or the error of
\* the first blob that does not decode
reconstruct_entries_from_blobs(blobs) ==
    LET RECURSIVE loop(_, _, _)
        loop(rest, es, num_ticks) ==
            IF rest = <<>>
              THEN [done |-> TRUE, ok |-> TRUE, entries |-> es, num_ticks |-> num_ticks]
            ELSE LET msg_size    == Head(rest).size
                     new_entries == deserialize(SubSeq(Head(rest).data, 1, msg_size))
                 IN  IF ~new_entries.ok THEN ReconstructError
                     ELSE loop(Tail(rest), es \o new_entries.value,
                               num_ticks + NumTicks(new_entries.value))
    IN  loop(blobs, <<>>, 0)

---------------------------------------------------------------------------
(* EntrySlice *)

\* next_entry_mut, past the assert! of Entry::new
next_entry_mut(start, num_hashes, txs) ==
    LET e == Entry_new(start, num_hashes, txs)
    IN  [entry |-> e, start |-> e.hash]

\* mutant: the entries are paired with their successors only, no genesis entry
entry_pairs_no_genesis(s, start_hash) ==
    [i \in 1..(Len(s) - 1) |-> [x0 |-> s[i], x1 |-> s[i + 1]]]

\* genesis.par_iter().chain(self).zip(self) of EntrySlice::verify
entry_pairs(s, start_hash) ==
    LET genesis == [num_hashes |-> 0, hash |-> start_hash, transactions |-> <<>>]
        chained == <<genesis>> \o s
    IN  [i \in 1..Len(s) |-> [x0 |-> chained[i], x1 |-> s[i]]]

\* the closure EntrySlice::verify hands to all()
pair_verifies(pair) == Entry_verify(pair.x1, pair.x0.hash)

---------------------------------------------------------------------------
(* Specification SpecEntry: one Entry *)

\* the hashes a chain is started from or verified against
StartHashes == {HashDefault, hash(HashDefault), HashAtom(1)}

NoAttack == [kind |-> "none", i |-> 0, j |-> 0]
NotChecked == [done |-> FALSE, start_hash |-> NoHash, ok |-> FALSE]

SliceIdle ==
    /\ slice = <<>>
    /\ slice_start = NoHash
    /\ slice_cur = NoHash
    /\ slice_info = [consecutive |-> TRUE, replaced |-> 0]
    /\ pending = {}
    /\ slice_res = "none"

FitState(pc, sizes, max_size) ==
    [pc |-> pc, sizes |-> sizes, max_size |-> max_size,
     num |-> 0, upper |-> 0, lower |-> 0, done |-> FALSE, calls |-> 0]

FitIdle == fit = FitState("idle", <<>>, 0)

EntryIdle ==
    /\ args = [prev_hash |-> NoHash, num_hashes |-> 0, transactions |-> <<>>, fn |-> "none"]
    /\ cursor = [start_hash |-> NoHash, num_hashes |-> 0]
    /\ entry = NoEntry
    /\ epc = "idle"
    /\ attack = NoAttack
    /\ checked = NotChecked
    /\ entries = <<>>

ChunkState(pc, items, size, max_size) ==
    [pc |-> pc, items |-> items, size |-> size, max_size |-> max_size,
     chunk_start |-> 0, result |-> <<>>]

ChunkIdle == chunking = ChunkState("idle", <<>>, [s \in {<<>>} |-> 0], 0)

NoResult == [done |-> FALSE, ok |-> FALSE, entries |-> <<>>, num_ticks |-> 0]

WireState(pc, es) ==
    [pc |-> pc, entries |-> es, blobs |-> <<>>, tampered |-> {}, result |-> NoResult]

WireIdle == wire = WireState("idle", <<>>)

\* the ghost of the last recorder call: the call, its slot and outcome, the
\* working bank, tick height and channel length it found, and for the
\* working bank in place the tick height it was installed at
NoCall ==
    [op |-> "none", slot |-> 0, ok |-> FALSE,
     bank |-> NoBank, tick_height |-> 0, len |-> 0,
     installed_at |-> 0, records |-> 0, installs |-> 0]

ServiceState(pc, hashes_per_tick) ==
    [pc |-> pc, hashes_per_tick |-> hashes_per_tick, num_hashes |-> 0,
     batches |-> <<>>, slept |-> FALSE, ticks |-> 0, iterations |-> 0]

PohIdle ==
    /\ recorder = PohRecorder_new(0, NoHash)
    /\ sent = <<>>
    /\ service = ServiceState("idle", 0)
    /\ poh_exit = FALSE
    /\ last = NoCall

\* the later subsystems before anything has run
SyncIdle == sync = [pc |-> "idle"]
ConfigIdle == config = [pc |-> "idle"]
SendIdle == sts = [pc |-> "idle"]
Bs91Idle == bs91 = [pc |-> "idle"]
HistoryIdle == history = [pc |-> "idle"]

OldIdle == EntryIdle /\ SliceIdle /\ FitIdle /\ ChunkIdle /\ WireIdle /\ PohIdle
IdleButSync   == OldIdle /\ ConfigIdle /\ SendIdle /\ Bs91Idle /\ HistoryIdle
IdleButConfig == OldIdle /\ SyncIdle /\ SendIdle /\ Bs91Idle /\ HistoryIdle
IdleButSend   == OldIdle /\ SyncIdle /\ ConfigIdle /\ Bs91Idle /\ HistoryIdle
IdleButBs91   == OldIdle /\ SyncIdle /\ ConfigIdle /\ SendIdle /\ HistoryIdle
IdleButHistory == OldIdle /\ SyncIdle /\ ConfigIdle /\ SendIdle /\ Bs91Idle

IdleButEntry == SliceIdle /\ FitIdle /\ ChunkIdle /\ WireIdle /\ PohIdle
                /\ SyncIdle /\ ConfigIdle /\ SendIdle /\ Bs91Idle /\ HistoryIdle
IdleButSlice == EntryIdle /\ FitIdle /\ ChunkIdle /\ WireIdle /\ PohIdle
                /\ SyncIdle /\ ConfigIdle /\ SendIdle /\ Bs91Idle /\ HistoryIdle
IdleButFit   == EntryIdle /\ SliceIdle /\ ChunkIdle /\ WireIdle /\ PohIdle
                /\ SyncIdle /\ ConfigIdle /\ SendIdle /\ Bs91Idle /\ HistoryIdle
IdleButChunk == EntryIdle /\ SliceIdle /\ FitIdle /\ WireIdle /\ PohIdle
                /\ SyncIdle /\ ConfigIdle /\ SendIdle /\ Bs91Idle /\ HistoryIdle
IdleButWire  == EntryIdle /\ SliceIdle /\ FitIdle /\ ChunkIdle /\ PohIdle
                /\ SyncIdle /\ ConfigIdle /\ SendIdle /\ Bs91Idle /\ HistoryIdle
IdleButPoh   == EntryIdle /\ SliceIdle /\ FitIdle /\ ChunkIdle /\ WireIdle
                /\ SyncIdle /\ ConfigIdle /\ SendIdle /\ Bs91Idle /\ HistoryIdle

InitEntry ==
    /\ args \in [prev_hash : StartHashes,
                 num_hashes : 0..MaxNumHashes,
                 transactions : SeqsUpTo(Transactions, MaxTxs),
                 fn : {"new", "new_mut", "next_entries", "next_entries_mut"}]
    /\ cursor = [start_hash |-> args.prev_hash, num_hashes |-> args.num_hashes]
    /\ entry = NoEntry
    /\ epc = "start"
    /\ attack = NoAttack
    /\ checked = NotChecked
    /\ entries = <<>>
    /\ IdleButEntry

\* Entry::new(&cursor.start_hash, cursor.num_hashes, transactions)
CallEntryNew ==
    /\ epc = "start"
    /\ args.fn = "new"
    /\ IF SizeCheck(args.transactions)
         THEN /\ entry' = Entry_new(args.prev_hash, args.num_hashes, args.transactions)
              /\ epc' = "built"
         ELSE /\ entry' = entry
              /\ epc' = "panicked"
    /\ UNCHANGED <<args, cursor, attack, checked, entries>>
    /\ UNCHANGED notEntry

\* Entry::new_mut(&mut cursor.start_hash, &mut cursor.num_hashes, transactions)
CallEntryNewMut ==
    /\ epc = "start"
    /\ args.fn = "new_mut"
    /\ IF SizeCheck(args.transactions)
         THEN LET r == Entry_new_mut(cursor.start_hash, cursor.num_hashes, args.transactions)
              IN  /\ entry' = r.entry
                  /\ cursor' = [start_hash |-> r.start_hash, num_hashes |-> r.num_hashes]
                  /\ epc' = "built"
         ELSE /\ entry' = entry
              /\ cursor' = cursor
              /\ epc' = "panicked"
    /\ UNCHANGED <<args, attack, checked, entries>>
    /\ UNCHANGED notEntry

\* next_entries(&cursor.start_hash, cursor.num_hashes, transactions)
CallNextEntries ==
    /\ epc = "start"
    /\ args.fn = "next_entries"
    /\ LET r == next_entries(cursor.start_hash, cursor.num_hashes, args.transactions)
       IN  /\ entries' = r.entries
           /\ epc' = r.outcome
    /\ UNCHANGED <<args, cursor, entry, attack, checked>>
    /\ UNCHANGED notEntry

\* next_entries_mut(&mut cursor.start_hash, &mut cursor.num_hashes, transactions)
CallNextEntriesMut ==
    /\ epc = "start"
    /\ args.fn = "next_entries_mut"
    /\ LET r == next_entries_mut(cursor.start_hash, cursor.num_hashes, args.transactions)
       IN  /\ entries' = r.entries
           /\ cursor' = [start_hash |-> r.start_hash, num_hashes |-> r.num_hashes]
           /\ epc' = r.outcome
    /\ UNCHANGED <<args, entry, attack, checked>>
    /\ UNCHANGED notEntry

Swap(s, i, j) == [s EXCEPT ![i] = s[j], ![j] = s[i]]

\* the reorder attack of the tests: e.transactions[i] and [j] exchanged
SwapTransactions(i, j) ==
    /\ epc = "built"
    /\ attack.kind = "none"
    /\ ~checked.done
    /\ i < j
    /\ entry.transactions[i] # entry.transactions[j]
    /\ entry' = [entry EXCEPT !.transactions = Swap(@, i, j)]
    /\ attack' = [kind |-> "swap", i |-> i, j |-> j]
    /\ UNCHANGED <<args, cursor, epc, checked, entries>>
    /\ UNCHANGED notEntry

\* e.transactions[i] = tx, for a different transaction tx
SubstituteTransaction(i, tx) ==
    /\ epc = "built"
    /\ attack.kind = "none"
    /\ ~checked.done
    /\ entry.transactions[i] # tx
    /\ entry' = [entry EXCEPT !.transactions[i] = tx]
    /\ attack' = [kind |-> "substitute", i |-> i, j |-> 0]
    /\ UNCHANGED <<args, cursor, epc, checked, entries>>
    /\ UNCHANGED notEntry

\* e.num_hashes = 0 on an entry with transactions that was made with
\* num_hashes 1: the fields of Entry are public
ZeroNumHashes ==
    /\ epc = "built"
    /\ attack.kind = "none"
    /\ ~checked.done
    /\ entry.transactions # <<>>
    /\ entry.num_hashes = 1
    /\ entry' = [entry EXCEPT !.num_hashes = 0]
    /\ attack' = [kind |-> "zero", i |-> 0, j |-> 0]
    /\ UNCHANGED <<args, cursor, epc, checked, entries>>
    /\ UNCHANGED notEntry

\* e.verify(&start_hash)
CallEntryVerify(start_hash) ==
    /\ epc = "built"
    /\ ~checked.done
    /\ checked' = [done |-> TRUE, start_hash |-> start_hash,
                   ok |-> Entry_verify(entry, start_hash)]
    /\ UNCHANGED <<args, cursor, entry, epc, attack, entries>>
    /\ UNCHANGED notEntry

SwapAttack == \E i, j \in 1..Len(entry.transactions) : SwapTransactions(i, j)

SubstituteAttack ==
    \E i \in 1..Len(entry.transactions), tx \in Transactions : SubstituteTransaction(i, tx)

VerifyEntry == \E h \in StartHashes : CallEntryVerify(h)

NextEntry ==
    \/ CallEntryNew
    \/ CallEntryNewMut
    \/ CallNextEntries
    \/ CallNextEntriesMut
    \/ SwapAttack
    \/ SubstituteAttack
    \/ ZeroNumHashes
    \/ VerifyEntry

SpecEntry == InitEntry /\ [][NextEntry]_vars

---------------------------------------------------------------------------
(* Specification SpecSlice: an entry slice and EntrySlice::verify *)

SliceNumHashes == {0, 1}
SliceTxLists == {<<>>, <<[signatures |-> <<1>>, message |-> 1]>>}

InitSlice ==
    /\ slice = <<>>
    /\ slice_start \in StartHashes
    /\ slice_cur = slice_start
    /\ slice_info = [consecutive |-> TRUE, replaced |-> 0]
    /\ pending = {}
    /\ slice_res = "none"
    /\ IdleButSlice

\* slice.push(next_entry_mut(&mut slice_cur, n, txs)): consecutive construction
PushNextEntry(n, txs) ==
    /\ slice_res = "none"
    /\ Len(slice) < MaxEntries
    /\ SizeCheck(txs)
    /\ LET r == next_entry_mut(slice_cur, n, txs)
       IN  /\ slice' = Append(slice, r.entry)
           /\ slice_cur' = r.start
    /\ UNCHANGED <<slice_start, slice_info, pending, slice_res>>
    /\ UNCHANGED notSlice

\* slice.push(Entry::new(&h, n, txs)) for a hash h that is not the last entry's
PushUnrelatedEntry(h, n, txs) ==
    /\ slice_res = "none"
    /\ Len(slice) < MaxEntries
    /\ SizeCheck(txs)
    /\ h # slice_cur
    /\ LET e == Entry_new(h, n, txs)
       IN  /\ slice' = Append(slice, e)
           /\ slice_cur' = e.hash
    /\ slice_info' = [slice_info EXCEPT !.consecutive = FALSE]
    /\ UNCHANGED <<slice_start, pending, slice_res>>
    /\ UNCHANGED notSlice

\* slice[i].hash = h, for a different hash h (once)
ReplaceHash(i, h) ==
    /\ slice_res = "none"
    /\ slice_info.replaced = 0
    /\ slice[i].hash # h
    /\ slice' = [slice EXCEPT ![i].hash = h]
    /\ slice_info' = [slice_info EXCEPT !.replaced = i]
    /\ UNCHANGED <<slice_start, slice_cur, pending, slice_res>>
    /\ UNCHANGED notSlice

\* slice.verify(&slice_start) is called: the pairs are formed; all() of no
\* pair is true
SliceVerifyCall ==
    /\ slice_res = "none"
    /\ LET pairs == entry_pairs(slice, slice_start)
       IN  /\ pending' = DOMAIN pairs
           /\ slice_res' = IF DOMAIN pairs = {} THEN "true" ELSE "running"
    /\ UNCHANGED <<slice, slice_start, slice_cur, slice_info>>
    /\ UNCHANGED notSlice

\* some worker evaluates the closure on one pair not yet evaluated; all()
\* ends with false at the first pair that fails, whatever is still pending,
\* and with true once every pair has passed
SliceVerifyPair(i) ==
    /\ slice_res = "running"
    /\ i \in pending
    /\ pending' = pending \ {i}
    /\ slice_res' = IF ~pair_verifies(entry_pairs(slice, slice_start)[i]) THEN "false"
                    ELSE IF pending' = {} THEN "true"
                    ELSE "running"
    /\ UNCHANGED <<slice, slice_start, slice_cur, slice_info>>
    /\ UNCHANGED notSlice

PushNext == \E n \in SliceNumHashes, txs \in SliceTxLists : PushNextEntry(n, txs)

PushUnrelated ==
    \E n \in SliceNumHashes, txs \in SliceTxLists : PushUnrelatedEntry(HashDefault, n, txs)

Replace == \E i \in 1..Len(slice), h \in StartHashes : ReplaceHash(i, h)

VerifyPair == \E i \in pending : SliceVerifyPair(i)

NextSlice ==
    \/ PushNext
    \/ PushUnrelated
    \/ Replace
    \/ SliceVerifyCall
    \/ VerifyPair

SpecSlice == InitSlice /\ [][NextSlice]_vars

---------------------------------------------------------------------------
(* Specification SpecFit: num_will_fit, one loop iteration a step *)

\* The slice is given by the sizes of its prefixes: sizes[k] is what the
\* size function returns for serializables[..k]
InitFit ==
    /\ \E sizes \in SeqsUpTo(0..MaxSize, MaxItems), max_size \in 0..MaxSize :
            fit = FitState("call", sizes, max_size)
    /\ IdleButFit

\* the call, up to the loop
NumWillFitEnter ==
    /\ fit.pc = "call"
    /\ fit' = IF fit.sizes = <<>>
                THEN [fit EXCEPT !.pc = "return", !.num = 0]
                ELSE LET st == FitEnter(Len(fit.sizes))
                     IN  [fit EXCEPT !.pc = "loop", !.num = st.num,
                                     !.upper = st.upper, !.lower = st.lower]
    /\ UNCHANGED notFit

\* one iteration of the loop, with its call of the size function
NumWillFitLoop ==
    /\ fit.pc = "loop"
    /\ LET st == FitIterate(fit, fit.sizes[fit.num] <= fit.max_size)
       IN  fit' = [st EXCEPT !.calls = @ + 1,
                             !.pc = IF st.done THEN "return" ELSE "loop"]
    /\ UNCHANGED notFit

NextFit ==
    \/ NumWillFitEnter
    \/ NumWillFitLoop

SpecFit == InitFit /\ [][NextFit]_vars

\* a call that has begun runs on
SpecFitLive == SpecFit /\ WF_vars(NextFit)

---------------------------------------------------------------------------
(* Specification SpecChunk: split_serializable_chunks, one loop iteration a step *)

\* the items are told apart by their position in the input
ChunkItems(n) == [i \in 1..n |-> i]

\* the sizes a size function gives a slice, and the limits they are held against
ChunkSizes == {1, 2}
ChunkLimits == {1}

\* the size functions: any function of the slice, the empty slice being free
SizeFunctions(items) ==
    {[s \in Slices(items) |-> IF s = <<>> THEN 0 ELSE f[s]] :
        f \in [Slices(items) \ {<<>>} -> ChunkSizes]}

InitChunk ==
    /\ \E n \in 0..MaxChunkItems :
         \E size \in SizeFunctions(ChunkItems(n)) :
           \E max_size \in ChunkLimits :
             chunking = ChunkState("loop", ChunkItems(n), size, max_size)
    /\ IdleButChunk

\* one iteration of the while loop: the slice goes to the converter and
\* chunk_start moves to chunk_end.  An iteration that leaves chunk_start in
\* place is repeated for ever by the code; the model follows it until the
\* converter has been called once more than there are items.
ChunkIterate ==
    /\ chunking.pc = "loop"
    /\ chunking.chunk_start < Len(chunking.items)
    /\ Len(chunking.result) <= Len(chunking.items)
    /\ LET chunk_end == next_chunk_end(chunking.items, chunking.max_size, chunking.size,
                                       chunking.chunk_start)
       IN  chunking' = [chunking EXCEPT
                       !.result = Append(@, chunk_slice(chunking.items, chunking.chunk_start,
                                                        chunk_end)),
                       !.chunk_start = chunk_end]
    /\ UNCHANGED notChunk

\* the loop condition fails: the function returns
ChunkReturn ==
    /\ chunking.pc = "loop"
    /\ ~(chunking.chunk_start < Len(chunking.items))
    /\ chunking' = [chunking EXCEPT !.pc = "done"]
    /\ UNCHANGED notChunk

NextChunk == ChunkIterate \/ ChunkReturn

SpecChunk == InitChunk /\ [][NextChunk]_vars

\* the calls whose termination is followed
InitChunkLive == InitChunk /\ Len(chunking.items) <= MaxChunkLiveItems

\* a running loop keeps running
SpecChunkLive == InitChunkLive /\ [][NextChunk]_vars /\ WF_vars(NextChunk)

---------------------------------------------------------------------------
(* Specification SpecWire: entries to blobs and back *)

\* the entries sent: a tick, entries of one transaction, and an entry whose
\* transactions do not fit a blob together
WireEntries ==
    {[num_hashes |-> 1, hash |-> hash(HashDefault), transactions |-> <<>>],
     [num_hashes |-> 0, hash |-> HashAtom(1),
      transactions |-> <<[signatures |-> <<>>, message |-> 1]>>],
     [num_hashes |-> 2, hash |-> HashAtom(2),
      transactions |-> <<[signatures |-> <<1>>, message |-> 2]>>],
     [num_hashes |-> 1, hash |-> HashAtom(3),
      transactions |-> <<[signatures |-> <<1>>, message |-> 2],
                         [signatures |-> <<2>>, message |-> 2]>>]}

\* the data of a blob that was not made from entries
NotEntries == <<1, 0>>

InitWire ==
    /\ \E es \in SeqsUpTo(WireEntries, MaxWireEntries) : wire = WireState("start", es)
    /\ IdleButWire

\* entries.to_blobs()
CallToBlobs ==
    /\ wire.pc = "start"
    /\ LET r == to_blobs(wire.entries)
       IN  wire' = [wire EXCEPT !.blobs = r.blobs,
                                !.pc = IF r.diverges THEN "diverges" ELSE "blobs"]
    /\ UNCHANGED notWire

\* a blob is replaced on the way by one that holds something else
ReplaceBlob ==
    /\ wire.pc = "blobs"
    /\ \E i \in 1..Len(wire.blobs) :
         /\ i \notin wire.tampered
         /\ wire' = [wire EXCEPT !.blobs[i] = [data |-> NotEntries, size |-> Len(NotEntries)],
                                  !.tampered = @ \cup {i}]
    /\ UNCHANGED notWire

\* a blob arrives cut short
TruncateBlob ==
    /\ wire.pc = "blobs"
    /\ \E i \in 1..Len(wire.blobs) :
         /\ i \notin wire.tampered
         /\ wire' = [wire EXCEPT !.blobs[i].size = @ - 1,
                                  !.tampered = @ \cup {i}]
    /\ UNCHANGED notWire

\* reconstruct_entries_from_blobs(blobs)
CallReconstruct ==
    /\ wire.pc = "blobs"
    /\ wire' = [wire EXCEPT !.result = reconstruct_entries_from_blobs(wire.blobs),
                             !.pc = "done"]
    /\ UNCHANGED notWire

NextWire == CallToBlobs \/ ReplaceBlob \/ TruncateBlob \/ CallReconstruct

SpecWire == InitWire /\ [][NextWire]_vars

---------------------------------------------------------------------------
(* Specification SpecPoh: the service thread and the callers of record *)

\* config.hashes_per_tick: sleeping, ticking without hashing, the value of
\* the test, and one that takes more than one batch
HashesPerTick == {0, 1, 2, NUM_HASHES_PER_BATCH + 2}

\* the slots record is called with, and the slot of the banks installed
Slots == {5, 6}
BankSlots == {5}
MaxTickHeights == {1, 4}

\* the transactions recorded, and the mixin handed over with them: their
\* hash, or as in test_poh_service the hash of something else
RecordTransactions == <<[signatures |-> <<1>>, message |-> 1]>>
RecordMixins == {hash_transactions(RecordTransactions), hash(HashAtom(7))}

InitPoh ==
    /\ recorder = PohRecorder_new(0, HashDefault)
    /\ sent = <<>>
    /\ \E h \in HashesPerTick : service = ServiceState("while", h)
    /\ poh_exit = FALSE
    /\ last = NoCall
    /\ IdleButPoh

\* what a call on the recorder leaves in the ghost
Call(op, slot, ok) ==
    [last EXCEPT !.op = op, !.slot = slot, !.ok = ok,
                 !.bank = recorder.working_bank,
                 !.tick_height = recorder.poh.tick_height,
                 !.len = Len(sent)]

\* while !poh_exit.load(): the loop ends, or an iteration begins, up to the
\* first call on the recorder
ServiceLoop ==
    /\ service.pc = "while"
    /\ IF poh_exit
         THEN service' = [service EXCEPT !.pc = "exited"]
         ELSE service' = [service EXCEPT
                !.pc = IF service.hashes_per_tick = 0 THEN "sleep"
                       ELSE IF service.hashes_per_tick - 1 # 0 THEN "hash" ELSE "tick",
                !.num_hashes = IF service.hashes_per_tick = 0 THEN 0
                               ELSE service.hashes_per_tick - 1,
                !.batches = <<>>, !.slept = FALSE, !.ticks = 0]
    /\ UNCHANGED <<recorder, sent, poh_exit, last>>
    /\ UNCHANGED notPoh

\* sleep(config.target_tick_duration)
ServiceSleep ==
    /\ service.pc = "sleep"
    /\ service' = [service EXCEPT !.pc = "tick", !.slept = TRUE]
    /\ UNCHANGED <<recorder, sent, poh_exit, last>>
    /\ UNCHANGED notPoh

\* one batch: poh_recorder.lock().unwrap().hash(num_hashes_batch)
ServiceHash ==
    /\ service.pc = "hash"
    /\ LET batch == num_hashes_batch(service.num_hashes)
           left  == service.num_hashes - batch
       IN  /\ recorder' = PohRecorder_hash(recorder, batch)
           /\ service' = [service EXCEPT !.num_hashes = left,
                                          !.batches = Append(@, batch),
                                          !.pc = IF left # 0 THEN "hash" ELSE "tick"]
    /\ last' = Call("hash", 0, TRUE)
    /\ UNCHANGED <<sent, poh_exit>>
    /\ UNCHANGED notPoh

\* poh_recorder.lock().unwrap().tick(tick_start)
ServiceTick ==
    /\ service.pc = "tick"
    /\ recorder.poh.tick_height < MaxTicks
    /\ LET r == PohRecorder_tick(recorder)
       IN  /\ recorder' = r.recorder
           /\ sent' = sent \o r.sent
    /\ service' = [service EXCEPT !.pc = "while", !.ticks = @ + 1, !.iterations = @ + 1]
    /\ last' = Call("tick", 0, TRUE)
    /\ UNCHANGED poh_exit
    /\ UNCHANGED notPoh

\* a caller: poh_recorder.lock().unwrap().record(slot, mixin, transactions)
Record ==
    /\ last.records + last.installs < MaxCalls
    /\ \E slot \in Slots, mixin \in RecordMixins :
         LET r == PohRecorder_record(recorder, slot, mixin, RecordTransactions)
         IN  /\ recorder' = r.recorder
             /\ sent' = sent \o r.sent
             /\ last' = [Call("record", slot, r.ok) EXCEPT !.records = @ + 1]
    /\ UNCHANGED <<service, poh_exit>>
    /\ UNCHANGED notPoh

\* a caller: poh_recorder.lock().unwrap().set_working_bank(working_bank)
SetWorkingBank ==
    /\ last.records + last.installs < MaxCalls
    /\ \E slot \in BankSlots, max \in MaxTickHeights :
         /\ recorder' = PohRecorder_set_working_bank(recorder, WorkingBank(slot, 0, max))
         /\ last' = [Call("set_working_bank", slot, TRUE) EXCEPT
                        !.installs = @ + 1,
                        !.installed_at = recorder.poh.tick_height]
    /\ UNCHANGED <<sent, service, poh_exit>>
    /\ UNCHANGED notPoh

\* exit.store(true)
Exit ==
    /\ ~poh_exit
    /\ poh_exit' = TRUE
    /\ UNCHANGED <<recorder, sent, service, last>>
    /\ UNCHANGED notPoh

NextPoh ==
    \/ ServiceLoop
    \/ ServiceSleep
    \/ ServiceHash
    \/ ServiceTick
    \/ Record
    \/ SetWorkingBank
    \/ Exit

SpecPoh == InitPoh /\ [][NextPoh]_vars

---------------------------------------------------------------------------
(* Specification SpecSync: the recorder's mutex between the service thread
   and the callers of record *)

\* the threads that call record
Callers == {"caller1", "caller2"}

\* config.hashes_per_tick: sleeping, ticking without hashing, one batch, a
\* full batch and a rest, two full batches and a rest
SyncHashesPerTick == {0, 1, 2, NUM_HASHES_PER_BATCH + 2, 2 * NUM_HASHES_PER_BATCH + 2}

\* the threads at the start: the service thread at the top of its loop, the
\* callers outside the recorder, the mutex free
SyncState(hashes_per_tick) ==
    [pc |-> "while", hashes_per_tick |-> hashes_per_tick, num_hashes |-> 0,
     holder |-> "none",
     callers |-> [c \in Callers |-> "idle"],
     passed |-> [c \in Callers |-> 0],
     section |-> [hashes |-> 0, ticks |-> 0],
     exit |-> FALSE, joined |-> FALSE, late_ticks |-> 0]

InitSync ==
    /\ \E h \in SyncHashesPerTick : sync = SyncState(h)
    /\ IdleButSync

\* while !poh_exit.load(): the loop ends, or an iteration begins, up to the
\* first lock() or the sleep
SyncLoop ==
    /\ sync.pc = "while"
    /\ sync' = IF sync.exit
                 THEN [sync EXCEPT !.pc = "store"]
                 ELSE [sync EXCEPT
                        !.pc = IF sync.hashes_per_tick = 0 THEN "sleep"
                               ELSE IF sync.hashes_per_tick - 1 # 0 THEN "hash_lock"
                               ELSE "tick_lock",
                        !.num_hashes = IF sync.hashes_per_tick = 0 THEN 0
                                       ELSE sync.hashes_per_tick - 1]
    /\ UNCHANGED notSync

\* sleep(config.target_tick_duration)
SyncSleep ==
    /\ sync.pc = "sleep"
    /\ sync' = [sync EXCEPT !.pc = "tick_lock"]
    /\ UNCHANGED notSync

\* poh_recorder.lock() of the service thread returns: the mutex was free.
\* Every caller that is waiting has been passed once more.
SyncLock ==
    /\ sync.pc \in {"hash_lock", "tick_lock"}
    /\ sync.holder = "none"
    /\ sync' = [sync EXCEPT
                 !.holder = "service",
                 !.pc = IF sync.pc = "hash_lock" THEN "hash" ELSE "tick",
                 !.section = [hashes |-> 0, ticks |-> 0],
                 !.passed = [c \in Callers |->
                               IF sync.callers[c] = "waiting" /\ @[c] < MaxPassed
                                 THEN @[c] + 1 ELSE @[c]]]
    /\ UNCHANGED notSync

\* mutant: the guard of a batch is kept over the batches that follow
SyncHash_keeps_guard ==
    /\ sync.pc = "hash"
    /\ LET batch == num_hashes_batch(sync.num_hashes)
           left  == sync.num_hashes - batch
       IN  sync' = [sync EXCEPT
                     !.num_hashes = left,
                     !.section.hashes = @ + batch,
                     !.holder = IF left # 0 THEN "service" ELSE "none",
                     !.pc = IF left # 0 THEN "hash" ELSE "tick_lock"]
    /\ UNCHANGED notSync

\* mutant: the exit flag is read after every batch as well
SyncHash_reads_flag ==
    /\ sync.pc = "hash"
    /\ LET batch == num_hashes_batch(sync.num_hashes)
           left  == sync.num_hashes - batch
       IN  sync' = [sync EXCEPT
                     !.num_hashes = left,
                     !.section.hashes = @ + batch,
                     !.holder = "none",
                     !.pc = IF sync.exit THEN "store"
                            ELSE IF left # 0 THEN "hash_lock" ELSE "tick_lock"]
    /\ UNCHANGED notSync

\* .hash(num_hashes_batch) under the guard, the guard dropped at the end of
\* the statement, num_hashes -= num_hashes_batch and the loop condition
SyncHash ==
    /\ sync.pc = "hash"
    /\ LET batch == num_hashes_batch(sync.num_hashes)
           left  == sync.num_hashes - batch
       IN  sync' = [sync EXCEPT
                     !.num_hashes = left,
                     !.section.hashes = @ + batch,
                     !.holder = "none",
                     !.pc = IF left # 0 THEN "hash_lock" ELSE "tick_lock"]
    /\ UNCHANGED notSync

\* .tick(tick_start) under the guard, the guard dropped at the end of the
\* statement; late_ticks counts the calls made with the exit flag set
SyncTick ==
    /\ sync.pc = "tick"
    /\ sync' = [sync EXCEPT !.section.ticks = @ + 1, !.holder = "none", !.pc = "while",
                            !.late_ticks = IF sync.exit THEN @ + 1 ELSE @]
    /\ UNCHANGED notSync

\* mutant: the flag is cleared instead of set
SyncStore_clears ==
    /\ sync.pc = "store"
    /\ sync' = [sync EXCEPT !.exit = FALSE, !.pc = "done"]
    /\ UNCHANGED notSync

\* after tick_producer has returned: poh_exit_.store(true), and the thread ends
SyncStore ==
    /\ sync.pc = "store"
    /\ sync' = [sync EXCEPT !.exit = TRUE, !.pc = "done"]
    /\ UNCHANGED notSync

\* join() on the thread that has ended returns
SyncJoin ==
    /\ sync.pc = "done"
    /\ ~sync.joined
    /\ sync' = [sync EXCEPT !.joined = TRUE]
    /\ UNCHANGED notSync

\* exit.store(true) by whoever shuts the service down
SyncExit ==
    /\ ~sync.exit
    /\ sync' = [sync EXCEPT !.exit = TRUE]
    /\ UNCHANGED notSync

\* a caller calls poh_recorder.lock() and waits
CallerLock(c) ==
    /\ sync.callers[c] = "idle"
    /\ sync' = [sync EXCEPT !.callers[c] = "waiting", !.passed[c] = 0]
    /\ UNCHANGED notSync

\* the caller's lock() returns: the mutex was free
CallerAcquire(c) ==
    /\ sync.callers[c] = "waiting"
    /\ sync.holder = "none"
    /\ sync' = [sync EXCEPT !.callers[c] = "holding", !.holder = c]
    /\ UNCHANGED notSync

\* mutant: the caller's guard outlives the statement
CallerRecord_keeps_guard(c) ==
    /\ sync.callers[c] = "holding"
    /\ sync' = [sync EXCEPT !.callers[c] = "idle"]
    /\ UNCHANGED notSync

\* .record(..) under the guard, the guard dropped at the end of the statement
CallerRecord(c) ==
    /\ sync.callers[c] = "holding"
    /\ sync' = [sync EXCEPT !.callers[c] = "idle", !.holder = "none"]
    /\ UNCHANGED notSync

CallersLock == \E c \in Callers : CallerLock(c)

CallersAcquire == \E c \in Callers : CallerAcquire(c)

CallersRecord == \E c \in Callers : CallerRecord(c)

NextSync ==
    \/ SyncLoop
    \/ SyncSleep
    \/ SyncLock
    \/ SyncHash
    \/ SyncTick
    \/ SyncStore
    \/ SyncJoin
    \/ SyncExit
    \/ CallersLock
    \/ CallersAcquire
    \/ CallersRecord

SpecSync == InitSync /\ [][NextSync]_vars

\* a thread that can take its next step takes it; a thread waiting for the
\* mutex takes it when the mutex stays free, and std::sync::Mutex promises a
\* waiting thread no more than that
SyncFairness ==
    /\ WF_vars(SyncLoop) /\ WF_vars(SyncSleep) /\ WF_vars(SyncLock)
    /\ WF_vars(SyncHash) /\ WF_vars(SyncTick) /\ WF_vars(SyncStore)
    /\ WF_vars(SyncJoin)
    /\ \A c \in Callers : WF_vars(CallerAcquire(c)) /\ WF_vars(CallerRecord(c))

SpecSyncLive == SpecSync /\ SyncFairness

---------------------------------------------------------------------------
(* Specification SpecConfig: store calls on a ConfigState, and
   process_instruction calls on a config account *)

\* the bytes configuration data is made of
ConfigBytes == {0, 1}

ConfigData == UNION {[1..n -> ConfigBytes] : n \in 0..MaxDataLen}

\* the states a store request carries
ConfigStates == [seq : 0..MaxSeq, data : ConfigData]

\* instruction data: a serialized ConfigState, nothing, or a sequence number alone
InstructionData ==
    {ConfigState_bytes(s) : s \in ConfigStates} \cup {<<>>, EncodeU64(1)}

\* Account::new(lamports, space, owner).data
Account_new_data(space) == [i \in 1..space |-> 0]

\* the sizes the account is created with: none, or ConfigState::max_size(data_len)
AccountSpaces == {0} \cup {ConfigState_max_size(n) : n \in 0..MaxDataLen}

NoConfigCall ==
    [op |-> "none", arg |-> ConfigState_new(0), data |-> <<>>, signer |-> FALSE,
     result |-> "none", before_state |-> ConfigState_new(0), before_data |-> <<>>,
     data_len |-> 0, instruction |-> <<>>]

\* SystemInstruction::new_program_account(from, to, lamports, space, program_id)
SystemInstruction_new_program_account(lamports, space, program_id) ==
    [lamports |-> lamports, space |-> space, program_id |-> program_id]

\* ConfigInstruction::new_config(from, config_account, lamports, data_len)
ConfigInstruction_new_config(lamports, data_len) ==
    SystemInstruction_new_program_account(lamports, ConfigState_max_size(data_len),
                                          CONFIG_PROGRAM_ID)

\* ConfigTransaction::new_config(from, config_account, data_len, .., lamports,
\* fee): the instruction of the transaction
ConfigTransaction_new_config(data_len, lamports) ==
    ConfigInstruction_new_config(lamports, ConfigState_max_size(data_len))

\* create_config_account(data_len, lamports) of the tests
create_config_account(data_len, lamports) ==
    [lamports |-> lamports, owner |-> CONFIG_PROGRAM_ID,
     data |-> Account_new_data(ConfigState_max_size(data_len))]

\* a ConfigState that store is called on, an account that
\* process_instruction is called on, or a client about to create an account
InitConfig ==
    /\ \E use \in {"state", "account", "client"}, n \in 0..MaxDataLen, space \in AccountSpaces,
          owner \in {CONFIG_PROGRAM_ID, Pubkey_default} :
         config = [pc |-> use,
                   state |-> ConfigState_new(IF use = "state" THEN n ELSE 0),
                   account |-> IF use = "account"
                                 THEN [owner |-> owner, data |-> Account_new_data(space)]
                                 ELSE [owner |-> Pubkey_default, data |-> <<>>],
                   last |-> NoConfigCall]
    /\ IdleButConfig

\* config_state.store(new_config_state)
ConfigStore ==
    /\ config.pc = "state"
    /\ \E new_config_state \in ConfigStates :
         LET r == ConfigState_store(config.state, new_config_state)
         IN  config' = [config EXCEPT
                         !.state = r.self,
                         !.last = [NoConfigCall EXCEPT
                                     !.op = "store", !.arg = new_config_state,
                                     !.result = r.result,
                                     !.before_state = config.state]]
    /\ UNCHANGED notConfig

\* the runtime calls process_instruction for a transaction that account 0
\* has signed or not
ConfigProcess ==
    /\ config.pc = "account"
    /\ \E data \in InstructionData, signer \in BOOLEAN :
         LET r == process_instruction([owner |-> config.account.owner, signer |-> signer,
                                       data |-> config.account.data], data)
         IN  config' = [config EXCEPT
                         !.account.data = r.data,
                         !.last = [NoConfigCall EXCEPT
                                     !.op = "process", !.data = data, !.signer = signer,
                                     !.result = r.result,
                                     !.before_data = config.account.data]]
    /\ UNCHANGED notConfig

\* a client builds the transaction that creates a config account
ConfigNewConfig ==
    /\ config.pc = "client"
    /\ \E data_len \in 0..MaxDataLen, lamports \in 1..MaxLamports :
         config' = [config EXCEPT
                      !.last = [NoConfigCall EXCEPT
                                  !.op = "new_config", !.data_len = data_len,
                                  !.instruction =
                                     ConfigTransaction_new_config(data_len, lamports)]]
    /\ UNCHANGED notConfig

NextConfig ==
    \/ ConfigStore
    \/ ConfigProcess
    \/ ConfigNewConfig

SpecConfig == InitConfig /\ [][NextConfig]_vars

---------------------------------------------------------------------------
(* Specification SpecSend: the retry thread of SendTransactionService, the
   clients of its channel and the banks it reads *)

\* root_bank.has_signature and working_bank.get_signature_status_slot as a
\* status check may find them, for the signatures it asks about
RootSignatures(queued) == SUBSET queued
WorkingBanks(queued) == [queued -> {"none", "ok", "err"}]

NoSendCall ==
    [op |-> "none", sends |-> NoSends, result |-> ProcessTransactionsResult_default,
     info |-> [signature |-> 0, last_valid_slot |-> 0, retry_enabled |-> FALSE],
     before |-> <<>>, root_bank |-> [slot |-> 0, signatures |-> {}],
     working_bank |-> <<>>]

\* what a step of the thread leaves in the ghost: the whole call when the
\* calls are followed; its name, its sends and the transactions it found
\* expired when only the thread's course is
Followed(call) ==
    IF sts.audit THEN call
    ELSE [NoSendCall EXCEPT !.op = call.op, !.sends = call.sends,
                            !.result.expired = call.result.expired]

\* SendTransactionService::new: the thread at the top of its loop, the
\* queue empty, the channel with its sender alive
SendState(audit) ==
    [pc |-> "loop", exit |-> FALSE, joined |-> FALSE, connected |-> TRUE,
     transactions |-> <<>>, root_slot |-> 0, audit |-> audit, last |-> NoSendCall]

InitSend ==
    /\ sts = SendState(TRUE)
    /\ IdleButSend

InitSendLive ==
    /\ sts = SendState(FALSE)
    /\ IdleButSend

\* if exit.load() { break }
SendLoop ==
    /\ sts.pc = "loop"
    /\ sts' = [sts EXCEPT !.pc = IF sts.exit THEN "done" ELSE "recv"]
    /\ UNCHANGED notSend

\* mutant: the loop ends when the channel is disconnected
SendRecv_ends_on_disconnect ==
    /\ sts.pc = "recv"
    /\ \/ /\ sts.connected
          /\ \E transaction_info \in TransactionInfos :
               sts' = [sts EXCEPT
                     !.transactions = receive(@, transaction_info),
                     !.pc = "check",
                     !.last = Followed([NoSendCall EXCEPT
                                 !.op = "received", !.before = sts.transactions,
                                 !.info = transaction_info,
                                 !.sends[transaction_info.signature] = 1])]
       \/ sts' = [sts EXCEPT
                     !.pc = IF sts.connected THEN "check" ELSE "done",
                     !.last = Followed([NoSendCall EXCEPT
                                 !.op = IF sts.connected THEN "timeout" ELSE "disconnected",
                                 !.before = sts.transactions])]
    /\ UNCHANGED notSend

\* receiver.recv_timeout(1 s): a transaction that a client has sent, which
\* goes to the socket and perhaps into the queue, or after the wait an
\* error, for a timeout or a disconnected channel alike, which is dropped
SendRecv ==
    /\ sts.pc = "recv"
    /\ \/ /\ sts.connected
          /\ \E transaction_info \in TransactionInfos :
               sts' = [sts EXCEPT
                     !.transactions = receive(@, transaction_info),
                     !.pc = "check",
                     !.last = Followed([NoSendCall EXCEPT
                                 !.op = "received", !.before = sts.transactions,
                                 !.info = transaction_info,
                                 !.sends[transaction_info.signature] = 1])]
       \/ sts' = [sts EXCEPT
                     !.pc = "check",
                     !.last = Followed([NoSendCall EXCEPT
                                 !.op = IF sts.connected THEN "timeout" ELSE "disconnected",
                                 !.before = sts.transactions])]
    /\ UNCHANGED notSend

\* the status check, when five seconds have passed since the last one: the
\* banks are read and a queue that is not empty goes through process_transactions
SendCheck ==
    /\ sts.pc = "check"
    /\ \E elapsed \in BOOLEAN, signatures \in RootSignatures(DOMAIN sts.transactions),
          working_bank \in WorkingBanks(DOMAIN sts.transactions) :
         LET root_bank == [slot |-> sts.root_slot, signatures |-> signatures]
             r == process_transactions(working_bank, root_bank, sts.transactions)
         IN  IF elapsed /\ DOMAIN sts.transactions # {}
               THEN sts' = [sts EXCEPT
                      !.transactions = r.transactions,
                      !.pc = "loop",
                      !.last = Followed([NoSendCall EXCEPT
                                  !.op = "processed", !.sends = r.sends,
                                  !.result = r.result, !.before = sts.transactions,
                                  !.root_bank = root_bank,
                                  !.working_bank = working_bank])]
               ELSE sts' = [sts EXCEPT
                      !.pc = "loop",
                      !.last = Followed([NoSendCall EXCEPT !.op = "unchecked",
                                                           !.before = sts.transactions])]
    /\ UNCHANGED notSend

\* join() on the thread that has ended returns
SendJoin ==
    /\ sts.pc = "done"
    /\ ~sts.joined
    /\ sts' = [sts EXCEPT !.joined = TRUE]
    /\ UNCHANGED notSend

\* exit.store(true)
SendExit ==
    /\ ~sts.exit
    /\ sts' = [sts EXCEPT !.exit = TRUE]
    /\ UNCHANGED notSend

\* the last sender of the channel is dropped
ClientDisconnect ==
    /\ sts.connected
    /\ sts' = [sts EXCEPT !.connected = FALSE]
    /\ UNCHANGED notSend

\* the cluster roots a later slot
RootAdvance ==
    /\ sts.root_slot < MaxRootSlot
    /\ sts' = [sts EXCEPT !.root_slot = @ + 1]
    /\ UNCHANGED notSend

NextSend ==
    \/ SendLoop
    \/ SendRecv
    \/ SendCheck
    \/ SendJoin
    \/ SendExit
    \/ ClientDisconnect
    \/ RootAdvance

SpecSend == InitSend /\ [][NextSend]_vars

\* the thread runs on: every wait in its loop is bounded
SpecSendLive ==
    /\ InitSendLive /\ [][NextSend]_vars
    /\ WF_vars(SendLoop) /\ WF_vars(SendRecv) /\ WF_vars(SendCheck) /\ WF_vars(SendJoin)

---------------------------------------------------------------------------
(* bs91: encode_u64 applied to two values *)

\* the limbs the inputs are made of: around the digits of a chunk (90, 91),
\* around a chunk (8191, 8192) and the ends of a limb
Bs91Limbs == {0, 1, 90, 91, 8191, 8192, 65534, 65535}

\* the inputs: one limb of the above, the others all zeros or all ones;
\* among them 0, 0xffff, 0x10000 and u64::MAX
U64Values ==
    {[i \in 1..4 |-> IF i = at THEN limb ELSE fill] :
       at \in 1..4, limb \in Bs91Limbs, fill \in {0, 65535}}

InitBs91 ==
    /\ \E a \in U64Values, b \in U64Values :
         bs91 = [pc |-> "call", a |-> a, b |-> b, ea |-> <<>>, eb |-> <<>>]
    /\ IdleButBs91

\* encode_u64(a) and encode_u64(b)
Bs91Encode ==
    /\ bs91.pc = "call"
    /\ bs91' = [bs91 EXCEPT !.pc = "done",
                            !.ea = encode_u64(bs91.a),
                            !.eb = encode_u64(bs91.b)]
    /\ UNCHANGED notBs91

NextBs91 ==
    \/ Bs91Encode

SpecBs91 == InitBs91 /\ [][NextBs91]_vars

---------------------------------------------------------------------------
(* ledger-tool transaction_history: the files injest_block writes *)

\* a u64 of one limb
U64(n) == <<n, 0, 0, 0>>

\* !value on u64
U64_not(value) == [i \in 1..4 |-> 65535 - value[i]]

RECURSIVE join(_, _)
join(strs, sep) ==
    IF Len(strs) = 0 THEN <<>>
    ELSE IF Len(strs) = 1 THEN strs[1]
    ELSE strs[1] \o sep \o join(Tail(strs), sep)

\* encode_signature: the eight u64 words of the signature, each encoded,
\* joined by "/"
encode_signature(signature) ==
    join([i \in 1..8 |-> encode_u64(signature[i])], <<47>>)

\* encode_pubkey: the four u64 words of the key, each encoded, joined by "/"
encode_pubkey(pubkey) ==
    join([i \in 1..4 |-> encode_u64(pubkey[i])], <<47>>)

\* Path::join: a path is its string, the components joined by "/"
Path_join(path, name) == path \o <<47>> \o name

\* Path::with_extension("tmp"): ".tmp" in place of what follows the last "."
\* of the file name, or after a file name that has no "." past its start
Path_with_extension_tmp(path) ==
    LET slashes == {i \in 1..Len(path) : path[i] = 47}
        start   == IF slashes = {} THEN 1
                   ELSE (CHOOSE i \in slashes : \A j \in slashes : j <= i) + 1
        dots    == {i \in (start + 1)..Len(path) : path[i] = 46}
        stem    == IF dots = {} THEN path
                   ELSE SubSeq(path, 1, (CHOOSE i \in dots : \A j \in dots : j <= i) - 1)
    IN  stem \o <<46, 116, 109, 112>>

\* "h/block", "h/tx-map", "h/by-addr"
block_dir == <<104, 47, 98, 108, 111, 99, 107>>
tx_map_dir == <<104, 47, 116, 120, 45, 109, 97, 112>>
by_addr_dir == <<104, 47, 98, 121, 45, 97, 100, 100, 114>>

\* the path of the block file of a slot
block_path(slot) == Path_join(block_dir, encode_u64(slot))

\* the path of the locator of a signature
tx_map_path(signature) == Path_join(tx_map_dir, encode_signature(signature))

\* the path of the signatures of an address in the block of a slot
by_addr_path(address, slot) ==
    Path_join(Path_join(by_addr_dir, encode_pubkey(address)), encode_u64(U64_not(slot)))

\* block_exists(slot), on the files there are
block_exists(files, slot) == block_path(slot) \in DOMAIN files

\* File::create(&tmp_path), write_all, remove_file(&path), rename(&tmp_path,
\* &path): the files after the writes went well, or after write_all gave an
\* error, which leaves the temporary file and returns
write_and_rename(files, path, data, ok) ==
    LET tmp_path == Path_with_extension_tmp(path)
    IN  IF ok
          THEN [f \in (DOMAIN files \ {tmp_path}) \cup {path} |->
                  IF f = path THEN data ELSE files[f]]
          ELSE [f \in DOMAIN files \cup {tmp_path} |->
                  IF f = tmp_path THEN <<"partial">> ELSE files[f]]

write_block(files, slot, block, ok) ==
    write_and_rename(files, block_path(slot), <<"block", block>>, ok)

write_transaction_map(files, signature, locator, ok) ==
    write_and_rename(files, tx_map_path(signature), <<"locator", locator>>, ok)

write_by_addr(files, path, signatures, ok) ==
    write_and_rename(files, path, <<"signatures", signatures>>, ok)

\* the keys that are sysvar ids
SysvarIds == {<<U64(3), U64(0), U64(0), U64(0)>>}
is_sysvar_id(address) == address \in SysvarIds

\* by_addr.entry(address).or_default().push(signature) for the account keys
\* of a transaction that are no sysvar ids
RECURSIVE by_addr_push(_, _, _)
by_addr_push(by_addr, account_keys, signature) ==
    IF account_keys = <<>> THEN by_addr
    ELSE LET address == Head(account_keys)
             pushed  ==
                IF is_sysvar_id(address) THEN by_addr
                ELSE [a \in DOMAIN by_addr \cup {address} |->
                        IF a = address
                          THEN (IF a \in DOMAIN by_addr THEN by_addr[a] ELSE <<>>)
                                  \o <<signature>>
                          ELSE by_addr[a]]
         IN  by_addr_push(pushed, Tail(account_keys), signature)

---------------------------------------------------------------------------
(* Specification SpecHistory: calls of injest_block on the blocks of a ledger *)

\* the slots of the ledger
HistorySlots == {U64(0), U64(1)}

\* the account keys a transaction may have: one address, two, a sysvar id
\* and an address
Pubkey(n) == <<U64(n), U64(0), U64(0), U64(0)>>
AccountKeyLists ==
    {<<Pubkey(1)>>, <<Pubkey(1), Pubkey(2)>>, <<Pubkey(3), Pubkey(1)>>}

\* the ledgers: the account keys of the transactions of a block
Ledgers == UNION {[1..n -> AccountKeyLists] : n \in 0..MaxBlockTransactions}

\* the signature of transaction index of the block of a slot
SignatureOf(slot, index) ==
    [i \in 1..8 |-> IF i = 1 THEN slot ELSE IF i = 8 THEN U64(index) ELSE U64(0)]

\* the confirmed block of a slot
ConfirmedBlock(ledger, slot) ==
    [transactions |->
       [i \in 1..Len(ledger) |->
          [signatures |-> <<SignatureOf(slot, i)>>, account_keys |-> ledger[i]]]]

HistoryState(ledger) ==
    [pc |-> "ready", ledger |-> ledger, files |-> <<>>,
     slot |-> U64(0), block |-> ConfirmedBlock(<<>>, U64(0)),
     index |-> 0, by_addr |-> <<>>, result |-> "none",
     writes |-> <<>>, failed |-> {}, calls |-> 0]

InitHistory ==
    /\ \E ledger \in Ledgers : history = HistoryState(ledger)
    /\ IdleButHistory

\* injest_block(slot, block) up to its loops: Ok(()) at once when the block
\* file exists
InjestBlock ==
    /\ history.pc = "ready"
    /\ history.calls < MaxInjestCalls
    /\ \E slot \in HistorySlots :
         IF block_exists(history.files, slot)
           THEN history' = [history EXCEPT
                              !.slot = slot,
                              !.block = ConfirmedBlock(history.ledger, slot),
                              !.result = "Ok", !.writes = <<>>, !.calls = @ + 1]
           ELSE history' = [history EXCEPT
                              !.pc = "running", !.slot = slot,
                              !.block = ConfirmedBlock(history.ledger, slot),
                              !.index = 0, !.by_addr = <<>>, !.result = "none",
                              !.writes = <<>>, !.calls = @ + 1]
    /\ UNCHANGED notHistory

\* one pass of the loop over block.transactions: the signature goes to the
\* lists of the account keys and its locator to its file; an error returns
InjestTransaction ==
    /\ history.pc = "running"
    /\ history.index < Len(history.block.transactions)
    /\ \E ok \in BOOLEAN :
         LET transaction == history.block.transactions[history.index + 1]
             signature   == transaction.signatures[1]
             path        == tx_map_path(signature)
         IN  history' = [history EXCEPT
               !.by_addr = by_addr_push(@, transaction.account_keys, signature),
               !.files = write_transaction_map(@, signature,
                                               <<history.slot, history.index>>, ok),
               !.index = IF ok THEN @ + 1 ELSE @,
               !.writes = IF ok THEN Append(@, path) ELSE @,
               !.pc = IF ok THEN "running" ELSE "ready",
               !.result = IF ok THEN "none" ELSE "Err",
               !.failed = IF ok THEN @ ELSE @ \cup {history.slot}]
    /\ UNCHANGED notHistory

\* one pass of the loop over by_addr, in the order of the HashMap
InjestByAddr ==
    /\ history.pc = "running"
    /\ history.index = Len(history.block.transactions)
    /\ \E address \in DOMAIN history.by_addr, ok \in BOOLEAN :
         LET path == by_addr_path(address, history.slot)
         IN  history' = [history EXCEPT
               !.by_addr = [a \in DOMAIN history.by_addr \ {address} |-> history.by_addr[a]],
               !.files = write_by_addr(@, path, history.by_addr[address], ok),
               !.writes = IF ok THEN Append(@, path) ELSE @,
               !.pc = IF ok THEN "running" ELSE "ready",
               !.result = IF ok THEN "none" ELSE "Err",
               !.failed = IF ok THEN @ ELSE @ \cup {history.slot}]
    /\ UNCHANGED notHistory

\* mutant: the block file is written before the by-addr files
InjestWriteBlock_before_by_addr ==
    /\ history.pc = "running"
    /\ history.index = Len(history.block.transactions)
    /\ block_path(history.slot) \notin DOMAIN history.files
    /\ \E ok \in BOOLEAN :
         history' = [history EXCEPT
               !.files = write_block(@, history.slot, history.block, ok),
               !.writes = IF ok THEN Append(@, block_path(history.slot)) ELSE @,
               !.pc = IF DOMAIN history.by_addr = {} \/ ~ok THEN "ready" ELSE "running",
               !.result = IF ~ok THEN "Err"
                          ELSE IF DOMAIN history.by_addr = {} THEN "Ok" ELSE "none",
               !.failed = IF ok THEN @ ELSE @ \cup {history.slot}]
    /\ UNCHANGED notHistory

\* write_block(slot, &block)? and Ok(()), after the loops
InjestWriteBlock ==
    /\ history.pc = "running"
    /\ history.index = Len(history.block.transactions)
    /\ DOMAIN history.by_addr = {}
    /\ \E ok \in BOOLEAN :
         history' = [history EXCEPT
               !.files = write_block(@, history.slot, history.block, ok),
               !.writes = IF ok THEN Append(@, block_path(history.slot)) ELSE @,
               !.pc = "ready",
               !.result = IF ok THEN "Ok" ELSE "Err",
               !.failed = IF ok THEN @ ELSE @ \cup {history.slot}]
    /\ UNCHANGED notHistory

NextHistory ==
    \/ InjestBlock
    \/ InjestTransaction
    \/ InjestByAddr
    \/ InjestWriteBlock

SpecHistory == InitHistory /\ [][NextHistory]_vars

---------------------------------------------------------------------------
(* The hash-chain primitive as the specification states it *)

\* advance(state, n): the hash function applied n times
RECURSIVE advance(_, _)
advance(state, n) == IF n = 0 THEN state ELSE hash(advance(state, n - 1))

\* mix(state, data): one hash application over state followed by data
mix(state, data) == hashv(state, data)

\* the first signatures of the signed transactions of txs, in order
FirstSignatures(txs) ==
    LET signed == SelectSeq(txs, LAMBDA tx : tx.signatures # <<>>)
    IN  [k \in 1..Len(signed) |-> signed[k].signatures[1]]

Unsigned(txs) == \A k \in 1..Len(txs) : txs[k].signatures = <<>>

\* the entry as it was constructed, before any attack on its transactions
Constructed == [entry EXCEPT !.transactions = args.transactions]

\* the number of hash applications Entry::new makes before the last one
HashesBeforeLast == IF args.num_hashes = 0 THEN 0 ELSE args.num_hashes - 1

---------------------------------------------------------------------------
(* Claims about one Entry, under SpecEntry *)

\* C1: the entry returned by Entry::new(h, n, txs), for every h, n >= 0 and
\* txs passing the size check (n = 0 with transactions included), verifies
\* against h.
C1_ConstructedEntryVerifies ==
    (checked.done /\ attack.kind = "none" /\ checked.start_hash = args.prev_hash)
        => checked.ok

C1_Witness ==
    /\ checked.done /\ attack.kind = "none" /\ args.fn = "new"
    /\ checked.start_hash = args.prev_hash
    /\ args.num_hashes = 0 /\ args.transactions # <<>>
    /\ checked.ok

\* C2: the entry constructed from h1 does not verify against any h2 # h1,
\* the entry with n = 0 and no transactions included.
C2_NoFalsePositive ==
    (checked.done /\ attack.kind = "none" /\ checked.start_hash # args.prev_hash)
        => ~checked.ok

C2_Witness ==
    /\ checked.done /\ attack.kind = "none"
    /\ checked.start_hash # args.prev_hash
    /\ args.num_hashes = 0 /\ args.transactions = <<>>
    /\ ~checked.ok

\* C3 as claimed: swapping two different transactions of an entry that
\* verifies against h makes verify(h) false, signed or not.
C3_SwapAlwaysDetected ==
    (checked.done /\ attack.kind = "swap" /\ Entry_verify(Constructed, checked.start_hash))
        => ~checked.ok

\* C3 as amended: swapping two different transactions of an entry that
\* verifies against h makes verify(h) false exactly when the swap changes
\* the ordered list of first signatures of the signed transactions.
C3_SwapDetectedIffSignaturesMove ==
    (checked.done /\ attack.kind = "swap" /\ Entry_verify(Constructed, checked.start_hash))
        => (~checked.ok <=>
                FirstSignatures(entry.transactions) # FirstSignatures(args.transactions))

C3_Witness ==
    /\ checked.done /\ attack.kind = "swap"
    /\ Entry_verify(Constructed, checked.start_hash)
    /\ args.transactions[attack.i].signatures # <<>>
    /\ args.transactions[attack.j].signatures # <<>>
    /\ args.transactions[attack.i].signatures # args.transactions[attack.j].signatures
    /\ ~checked.ok

\* C4 as claimed: replacing a transaction of an entry that verifies against
\* h by a different transaction makes verify(h) false.
C4_SubstitutionAlwaysDetected ==
    (checked.done /\ attack.kind = "substitute"
        /\ Entry_verify(Constructed, checked.start_hash))
        => ~checked.ok

\* C4 as amended: replacing a transaction of an entry that verifies against
\* h by a different transaction makes verify(h) false exactly when the two
\* differ in their first signature (one of them having none counts).
C4_SubstitutionDetectedIffSignatureDiffers ==
    (checked.done /\ attack.kind = "substitute"
        /\ Entry_verify(Constructed, checked.start_hash))
        => (~checked.ok <=>
                FirstSignatures(<<entry.transactions[attack.i]>>)
                    # FirstSignatures(<<args.transactions[attack.i]>>))

C4_Witness ==
    /\ checked.done /\ attack.kind = "substitute"
    /\ Entry_verify(Constructed, checked.start_hash)
    /\ entry.transactions[attack.i].signatures # args.transactions[attack.i].signatures
    /\ entry.transactions[attack.i].signatures # <<>>
    /\ ~checked.ok

\* C5: for n >= 1 the entry has num_hashes = n and hash = advance(prev, n)
\* without transactions, hash = mix(advance(prev, n - 1), digest(txs)) with
\* transactions; for n = 0 without transactions it has num_hashes = 0 and
\* hash = prev.
C5_ConstructionRule ==
    (epc = "built" /\ attack.kind = "none") =>
        LET n == args.num_hashes
            prev == args.prev_hash
            txs == args.transactions
        IN  /\ n >= 1 =>
                /\ entry.num_hashes = n
                /\ entry.hash = IF txs = <<>>
                                  THEN advance(prev, n)
                                  ELSE mix(advance(prev, n - 1), hash_transactions(txs))
            /\ (n = 0 /\ txs = <<>>) =>
                /\ entry.num_hashes = 0
                /\ entry.hash = prev

C5_Witness ==
    /\ epc = "built" /\ attack.kind = "none"
    /\ args.num_hashes = 2 /\ args.transactions # <<>>
    /\ entry.hash = mix(hash(args.prev_hash), hash_transactions(args.transactions))

\* C6: Entry::new(prev, 0, txs) with transactions is not rejected for its
\* zero count and equals Entry::new(prev, 1, txs) field for field:
\* num_hashes = 1 and hash = mix(prev, digest(txs)).
C6_ZeroCountPromoted ==
    (epc # "start" /\ args.fn \in {"new", "new_mut"} /\ attack.kind = "none"
        /\ args.num_hashes = 0 /\ args.transactions # <<>>) =>
        /\ epc = "panicked" <=> ~SizeCheck(args.transactions)
        /\ epc = "built" =>
            /\ entry = Entry_new(args.prev_hash, 1, args.transactions)
            /\ entry.num_hashes = 1
            /\ entry.hash = mix(args.prev_hash, hash_transactions(args.transactions))
            /\ entry.transactions = args.transactions

C6_Witness ==
    /\ epc = "built" /\ attack.kind = "none" /\ args.fn = "new"
    /\ args.num_hashes = 0 /\ Len(args.transactions) = 2
    /\ entry.num_hashes = 1

\* C7 as claimed: when no transaction of a non-empty list carries a
\* signature, the entry's hash is the hash state reached before the mix.
C7_UnsignedMixIsNoOp ==
    (epc = "built" /\ attack.kind = "none"
        /\ args.transactions # <<>> /\ Unsigned(args.transactions))
        => entry.hash = advance(args.prev_hash, HashesBeforeLast)

\* C7 as amended: when no transaction of a non-empty list carries a
\* signature, the mix is still made: the entry's hash is one hash
\* application over the state reached before the mix and the digest of
\* nothing, and differs from that state.
C7_UnsignedMixStillHashes ==
    (epc = "built" /\ attack.kind = "none"
        /\ args.transactions # <<>> /\ Unsigned(args.transactions))
        => /\ entry.hash = mix(advance(args.prev_hash, HashesBeforeLast),
                               HasherResult(HasherDefault))
           /\ entry.hash # advance(args.prev_hash, HashesBeforeLast)

C7_Witness ==
    /\ epc = "built" /\ attack.kind = "none"
    /\ Len(args.transactions) = 2 /\ Unsigned(args.transactions)
    /\ args.num_hashes = 1
    /\ entry.hash = hashv(args.prev_hash, HasherResult(HasherDefault))

\* C8: Entry::new and Entry::new_mut refuse exactly when
\* serialized_to_blob_size(transactions) > BLOB_DATA_SIZE, making no Entry
\* and leaving the caller's start_hash and num_hashes as they were; every
\* Entry they or next_entries make has a blob size <= BLOB_DATA_SIZE.
C8_RefusesExactlyOversized ==
    /\ (epc # "start" /\ args.fn \in {"new", "new_mut"}) =>
        /\ epc = "panicked" <=> serialized_to_blob_size(args.transactions) > BLOB_DATA_SIZE
        /\ epc = "panicked" =>
            /\ entry = NoEntry
            /\ cursor = [start_hash |-> args.prev_hash, num_hashes |-> args.num_hashes]
        /\ (epc = "built" /\ attack.kind = "none") =>
            serialized_to_blob_size(entry.transactions) <= BLOB_DATA_SIZE
    /\ \A k \in 1..Len(entries) :
            serialized_to_blob_size(entries[k].transactions) <= BLOB_DATA_SIZE

C8_Witness ==
    /\ epc = "panicked" /\ args.fn = "new_mut"
    /\ serialized_to_blob_size(args.transactions) > BLOB_DATA_SIZE
    /\ cursor.num_hashes = 2

---------------------------------------------------------------------------
(* Claims about an entry slice, under SpecSlice *)

\* the hash entry i is to be verified against
Predecessor(i) == IF i = 1 THEN slice_start ELSE slice[i - 1].hash

\* C9: EntrySlice::verify is true iff every entry verifies against the hash
\* of the entry before it (start_hash for the first), in whatever order the
\* pairs are evaluated: true for the empty slice, true for a chain built by
\* consecutive construction, false once one hash field has been replaced.
C9_SliceVerifiesIffAllPairs ==
    slice_res \in {"true", "false"} =>
        /\ slice_res = "true" <=>
                \A i \in 1..Len(slice) : Entry_verify(slice[i], Predecessor(i))
        /\ slice = <<>> => slice_res = "true"
        /\ (slice_info.consecutive /\ slice_info.replaced = 0) => slice_res = "true"
        /\ (slice_info.consecutive /\ slice_info.replaced # 0) => slice_res = "false"

C9_Witness ==
    /\ slice_res = "false"
    /\ Len(slice) = 2
    /\ slice_info.consecutive /\ slice_info.replaced = 1
    /\ pending = {1}

---------------------------------------------------------------------------
(* Claims about num_will_fit, under SpecFit *)

NonDecreasing(sizes) == \A k \in 1..(Len(sizes) - 1) : sizes[k] <= sizes[k + 1]

Fitting == {k \in 1..Len(fit.sizes) : fit.sizes[k] <= fit.max_size}

---------------------------------------------------------------------------
(* Claims about split_serializable_chunks, under SpecChunk *)

RECURSIVE Concat(_)
Concat(ss) == IF ss = <<>> THEN <<>> ELSE Head(ss) \o Concat(Tail(ss))

\* the limit is met by the slice
ChunkFits(s) == chunking.size[s] <= chunking.max_size

\* every item is within the limit when it is sized alone
AllFitAlone == \A i \in 1..Len(chunking.items) : ChunkFits(<<chunking.items[i]>>)

\* C11: when every item fits alone, the slices handed to the converter are
\* non-empty and, joined in the order they were handed over, are the items
\* up to chunk_start, no item left out, repeated or moved; on return they
\* are the whole input.
C11_ChunksPartitionInput ==
    AllFitAlone =>
        /\ \A k \in 1..Len(chunking.result) : chunking.result[k] # <<>>
        /\ Concat(chunking.result) = SubSeq(chunking.items, 1, chunking.chunk_start)
        /\ chunking.pc = "done" => Concat(chunking.result) = chunking.items

C11_Witness ==
    /\ chunking.pc = "done"
    /\ AllFitAlone
    /\ Len(chunking.result) >= 2
    /\ \E k \in 1..Len(chunking.result) : Len(chunking.result[k]) >= 2

\* the size function does not decrease as a slice is extended at its end
PrefixMonotone ==
    \A i \in 1..Len(chunking.items) : \A j \in i..(Len(chunking.items) - 1) :
        chunking.size[SubSeq(chunking.items, i, j)]
            <= chunking.size[SubSeq(chunking.items, i, j + 1)]

\* ... nor as it is extended at its start
SuffixMonotone ==
    \A j \in 1..Len(chunking.items) : \A i \in 2..j :
        chunking.size[SubSeq(chunking.items, i, j)]
            <= chunking.size[SubSeq(chunking.items, i - 1, j)]

\* the least number of contiguous runs, each within the limit, that the
\* items after position from can be cut into (more than there are items
\* when there is no such cut)
RECURSIVE MinChunks(_)
MinChunks(from) ==
    LET n     == Len(chunking.items)
        ends  == {j \in (from + 1)..n : ChunkFits(SubSeq(chunking.items, from + 1, j))}
        rests == {MinChunks(j) : j \in ends}
    IN  IF from = n THEN 0
        ELSE IF ends = {} THEN n + 1
        ELSE 1 + CHOOSE m \in rests : \A o \in rests : m <= o

ChunksWithinLimit == \A k \in 1..Len(chunking.result) : ChunkFits(chunking.result[k])

ChunksFewest == chunking.pc = "done" => Len(chunking.result) = MinChunks(0)

\* C12 as stated: when every item fits alone and the size function is
\* non-decreasing in the length of a prefix, every chunk is within the
\* limit and no cut of the input into contiguous runs within the limit has
\* fewer runs than the chunks made.
C12_FewestChunksForPrefixMonotone ==
    (AllFitAlone /\ PrefixMonotone) => (ChunksWithinLimit /\ ChunksFewest)

\* C12 amended: the same, for a size function that does not decrease when a
\* slice is extended at either end.
C12_FewestChunksForMonotone ==
    (AllFitAlone /\ PrefixMonotone /\ SuffixMonotone)
        => (ChunksWithinLimit /\ ChunksFewest)

C12_Witness ==
    /\ chunking.pc = "done"
    /\ AllFitAlone /\ PrefixMonotone /\ SuffixMonotone
    /\ Len(chunking.result) >= 2
    /\ Len(chunking.result) < Len(chunking.items)

\* C13: when every item fits alone, every iteration of the loop moves
\* chunk_start forward by at least one item and the function returns; for
\* no items it returns without having called the converter.
C13_ChunkingTerminates ==
    /\ [][(AllFitAlone /\ chunking'.result # chunking.result)
            => chunking'.chunk_start >= chunking.chunk_start + 1]_vars
    /\ [](AllFitAlone => <>(chunking.pc = "done"))
    /\ []((chunking.pc = "done" /\ chunking.items = <<>>) => chunking.result = <<>>)

C13_Witness ==
    /\ chunking.pc = "done"
    /\ AllFitAlone
    /\ Len(chunking.result) = MaxChunkLiveItems

---------------------------------------------------------------------------
(* Claims about blobs, under SpecWire *)

\* the entry alone is within the payload limit of a blob
FitsOneBlob(e) == serialized_size_entries(<<e>>) <= BLOB_DATA_SIZE

\* the blob's data, up to its size, is a serialized entry vector
Decodes(blob) == deserialize(SubSeq(blob.data, 1, blob.size)).ok

\* C14: for entries that each fit one blob, reconstruct_entries_from_blobs
\* of the blobs to_blobs made returns the entries themselves, the same ones
\* in the same order, with the number of ticks among them, whether they
\* went into one blob or several.
C14_BlobRoundTrip ==
    (/\ wire.pc = "done"
     /\ wire.tampered = {}
     /\ \A i \in 1..Len(wire.entries) : FitsOneBlob(wire.entries[i]))
        => /\ wire.result.ok
           /\ wire.result.entries = wire.entries
           /\ wire.result.num_ticks = NumTicks(wire.entries)

C14_Witness ==
    /\ wire.pc = "done"
    /\ wire.tampered = {}
    /\ Len(wire.blobs) = 2
    /\ Len(wire.entries) = 3
    /\ wire.result.ok

\* C15: when a blob does not decode, reconstruct_entries_from_blobs returns
\* an error and no entry, not even those of the blobs that did decode, and
\* the verifier of entry slices has not been run.
C15_UndecodableBlobIsError ==
    (wire.pc = "done" /\ \E i \in 1..Len(wire.blobs) : ~Decodes(wire.blobs[i]))
        => /\ ~wire.result.ok
           /\ wire.result.entries = <<>>
           /\ slice_res = "none"

C15_Witness ==
    /\ wire.pc = "done"
    /\ ~wire.result.ok
    /\ \E i, j \in 1..Len(wire.blobs) : Decodes(wire.blobs[i]) /\ ~Decodes(wire.blobs[j])

---------------------------------------------------------------------------
(* Claims about the recorder and the service, under SpecPoh *)

\* the last call on the recorder found a working bank for its slot that had
\* not reached its maximum tick height
FoundAccepting ==
    /\ last.bank.present
    /\ last.slot = last.bank.slot
    /\ last.tick_height < last.bank.max_tick_height

\* C16: record succeeds exactly when it finds a working bank in place, for
\* the slot it names, that has not reached its maximum tick height; then it
\* puts one entry with its transactions on the channel.  In every other
\* case (no working bank, another slot, maximum tick height reached) it
\* returns an error and puts nothing on the channel.
C16_RecordRejectsWithoutEmitting ==
    last.op = "record" =>
        /\ last.ok <=> FoundAccepting
        /\ ~last.ok => Len(sent) = last.len
        /\ last.ok => /\ Len(sent) = last.len + 1
                      /\ sent[Len(sent)].entry.transactions = RecordTransactions

C16_Witness ==
    /\ last.op = "record"
    /\ ~last.ok
    /\ last.bank.present
    /\ last.slot = last.bank.slot

\* C17: a working bank with maximum tick height M installed at tick height
\* m < M stays in place for the next M - m - 1 ticks and is cleared by the
\* (M - m)-th; with no working bank in place every record is rejected, and
\* none is in place again before set_working_bank is called.
C17_ClearedAtMaxTickHeight ==
    /\ (last.op = "tick" /\ last.bank.present
            /\ last.installed_at < last.bank.max_tick_height)
        => (~recorder.working_bank.present
              <=> recorder.poh.tick_height - last.installed_at
                    = last.bank.max_tick_height - last.installed_at)
    /\ (recorder.working_bank.present
            /\ last.installed_at < recorder.working_bank.max_tick_height)
        => recorder.poh.tick_height - last.installed_at
             < recorder.working_bank.max_tick_height - last.installed_at
    /\ (last.op = "record" /\ ~last.bank.present) => ~last.ok
    /\ (~last.bank.present /\ last.op # "set_working_bank")
        => ~recorder.working_bank.present

C17_Witness ==
    /\ last.op = "tick"
    /\ last.bank = WorkingBank(5, 0, 4)
    /\ last.installed_at = 0
    /\ recorder.poh.tick_height = 4
    /\ ~recorder.working_bank.present

\* C18: hash and record leave the working bank as it is; a working bank
\* comes into place, or takes the place of another, only by
\* set_working_bank, and goes only by a tick that brings the tick height to
\* its maximum tick height.
C18_OnlyInstallAndFinalTickChangeContext ==
    /\ last.op \in {"hash", "record"} => recorder.working_bank = last.bank
    /\ (recorder.working_bank.present /\ recorder.working_bank # last.bank)
        => last.op = "set_working_bank"
    /\ (last.bank.present /\ ~recorder.working_bank.present)
        => /\ last.op = "tick"
           /\ recorder.poh.tick_height >= last.bank.max_tick_height

C18_Witness ==
    /\ last.op = "record"
    /\ ~last.ok
    /\ last.bank.present
    /\ recorder.working_bank = last.bank
    /\ recorder.poh.num_hashes > 0

\* the hash the k-th entry on the channel follows: that of the entry before
\* it, the recorder's initial hash for the first
SentAfter(k) == IF k = 1 THEN HashDefault ELSE sent[k - 1].entry.hash

RECURSIVE SumBatches(_)
SumBatches(bs) == IF bs = <<>> THEN 0 ELSE Head(bs) + SumBatches(Tail(bs))

\* the hash calls of the iteration are over
HashingOver == service.pc = "tick" \/ (service.pc \in {"while", "exited"} /\ service.iterations > 0)

\* the iteration is over
IterationOver == service.pc \in {"while", "exited"} /\ service.iterations > 0

\* C20: in an iteration of the service loop with hashes_per_tick = H >= 1
\* every hash call is for between 1 and NUM_HASHES_PER_BATCH hashes, the
\* calls are for H - 1 hashes in all (none when H = 1), and tick is called
\* once, after them; with H = 0 there is no hash call, the thread sleeps,
\* and tick is called once, after the sleep.
C20_BatchesThenOneTick ==
    /\ \A i \in 1..Len(service.batches) :
         service.batches[i] >= 1 /\ service.batches[i] <= NUM_HASHES_PER_BATCH
    /\ service.pc \in {"hash", "sleep", "tick"} => service.ticks = 0
    /\ IterationOver => service.ticks = 1
    /\ (HashingOver /\ service.hashes_per_tick >= 1)
        => /\ SumBatches(service.batches) = service.hashes_per_tick - 1
           /\ ~service.slept
    /\ (HashingOver /\ service.hashes_per_tick = 0)
        => /\ service.batches = <<>>
           /\ service.slept

C20_Witness ==
    /\ IterationOver
    /\ Len(service.batches) = 2
    /\ service.batches[1] = NUM_HASHES_PER_BATCH

\* the entry delivered k-th is a tick
SentTick(k) == Entry_is_tick(sent[k].entry)

\* the place on the channel of the tick before the k-th entry, 0 if none
PrevTick(k) ==
    LET ticks == {j \in 1..(k - 1) : SentTick(j)}
    IN  IF ticks = {} THEN 0 ELSE CHOOSE j \in ticks : \A i \in ticks : i <= j

\* num_hashes - 1 summed over the entries delivered after the p-th and before the k-th
HashesBetween(p, k) ==
    LET sum[j \in p..(k - 1)] ==
            IF j = p THEN 0 ELSE sum[j - 1] + (sent[j].entry.num_hashes - 1)
    IN  sum[k - 1]

\* C21: with hashes_per_tick = H >= 1 and record calls interleaved in any
\* way, every data entry delivered has num_hashes >= 1, every tick delivered
\* has num_hashes <= H, and the num_hashes of a tick plus num_hashes - 1 of
\* each data entry delivered since the tick before it is exactly H.
C21_HashAccounting ==
    service.hashes_per_tick >= 1 =>
        \A k \in 1..Len(sent) :
            IF SentTick(k)
              THEN /\ sent[k].entry.num_hashes <= service.hashes_per_tick
                   /\ sent[k].entry.num_hashes + HashesBetween(PrevTick(k), k)
                        = service.hashes_per_tick
              ELSE sent[k].entry.num_hashes >= 1

C21_Witness ==
    \E j, k \in 1..Len(sent) :
        /\ PrevTick(k) > 0
        /\ PrevTick(k) < j /\ j < k
        /\ SentTick(k)
        /\ sent[j].entry.num_hashes > 1
        /\ sent[k].entry.num_hashes > 1
        /\ sent[k].entry.num_hashes < service.hashes_per_tick

---------------------------------------------------------------------------
(* Claims about the recorder's mutex, under SpecSync and SpecSyncLive *)

\* C22: whenever the service thread has the recorder's mutex it has it for
\* at most NUM_HASHES_PER_BATCH hashes or for one tick, never for both; it
\* takes the mutex only when it is free and leaves it free after each batch
\* and each tick, so with hashes_per_tick - 1 > NUM_HASHES_PER_BATCH no
\* holding of the mutex covers the hashes_per_tick - 1 hashes of a tick.
C22_ServiceHoldsForOneBatch ==
    /\ [](/\ sync.section.hashes <= NUM_HASHES_PER_BATCH
          /\ sync.section.ticks <= 1
          /\ ~(sync.section.hashes > 0 /\ sync.section.ticks > 0)
          /\ sync.hashes_per_tick - 1 > NUM_HASHES_PER_BATCH
                => sync.section.hashes < sync.hashes_per_tick - 1
          /\ sync.holder = "service" <=> sync.pc \in {"hash", "tick"})
    /\ [][/\ (sync.pc \in {"hash", "tick"} /\ sync'.section # sync.section)
                => sync'.holder = "none"
          /\ (sync.holder # "service" /\ sync'.holder = "service")
                => sync.holder = "none"]_vars

C22_Witness ==
    /\ sync.hashes_per_tick = 2 * NUM_HASHES_PER_BATCH + 2
    /\ sync.pc = "tick_lock"
    /\ sync.section.hashes = 1
    /\ sync.holder = "caller1"
    /\ sync.callers["caller2"] = "waiting"

\* C23 as stated: a caller that waits for the mutex gets it, and the service
\* thread does not take the mutex ahead of it.
C23_WaitingCallerAcquiresNext ==
    \A c \in Callers :
        /\ (sync.callers[c] = "waiting") ~> (sync.callers[c] = "holding")
        /\ [](sync.callers[c] = "waiting" => sync.passed[c] = 0)

\* C23 amended: while a caller waits, the service thread has the mutex for
\* no more than one batch of NUM_HASHES_PER_BATCH hashes or one tick at a
\* time and then leaves it free; the caller gets the mutex when the mutex
\* does not keep passing over a thread that waits for it, which
\* std::sync::Mutex does not promise.
C23_WaitingCallerAcquiresIfMutexFair ==
    \A c \in Callers :
        /\ (sync.callers[c] = "waiting" /\ sync.holder = "service")
              ~> (sync.holder = "none" /\ sync.section.hashes <= NUM_HASHES_PER_BATCH
                    /\ sync.section.hashes + sync.section.ticks >= 1)
        /\ SF_vars(CallerAcquire(c))
              => ((sync.callers[c] = "waiting") ~> (sync.callers[c] = "holding"))

C23_Witness ==
    /\ sync.callers["caller1"] = "waiting"
    /\ sync.passed["caller1"] = MaxPassed
    /\ sync.holder = "service"
    /\ sync.pc = "hash"
    /\ sync.num_hashes > NUM_HASHES_PER_BATCH

\* C24: once the exit flag is set the service thread ends, when the mutex
\* does not keep passing it over, and join() returns; after the thread has
\* left its loop the flag is true, and no step of the thread clears it.
C24_ExitFlagEndsService ==
    /\ SF_vars(SyncLock) => (sync.exit ~> sync.joined)
    /\ [](sync.pc \in {"store", "done"} => sync.exit)
    /\ [](sync.joined => sync.pc = "done")
    /\ [][sync.exit => sync'.exit]_vars

C24_Witness ==
    /\ sync.joined
    /\ sync.hashes_per_tick = NUM_HASHES_PER_BATCH + 2
    /\ sync.callers["caller1"] = "holding"
    /\ sync.callers["caller2"] = "waiting"

---------------------------------------------------------------------------
(* Claims about the config program, under SpecConfig *)

\* the last call was a store that succeeded
StoredOk == config.last.op = "store" /\ config.last.result = "Ok"

\* C25: over any sequence of store calls, successful or not, the stored seq
\* never goes down, and every successful store takes it up, by one or by more.
C25_SeqNeverGoesBack ==
    /\ [][config'.state.seq >= config.state.seq]_vars
    /\ [](config.last.op = "store" =>
            /\ config.state.seq >= config.last.before_state.seq
            /\ config.last.result = "Ok" => config.state.seq > config.last.before_state.seq
            /\ config.last.result # "Ok" => config.state.seq = config.last.before_state.seq)

C25_Witness ==
    /\ StoredOk
    /\ config.last.before_state.seq = 1
    /\ config.state.seq = 3

\* C26: store(new) returns InvalidArgument and leaves seq and data as they
\* were exactly when new.seq <= seq; otherwise it returns Ok and the state
\* is new, data of another length included.  So the request that has just
\* been stored is rejected when it is made again.
C26_StoreRejectsExactlyOldSeq ==
    /\ [](config.last.op = "store" =>
            IF config.last.arg.seq <= config.last.before_state.seq
              THEN /\ config.last.result = "InvalidArgument"
                   /\ config.state = config.last.before_state
              ELSE /\ config.last.result = "Ok"
                   /\ config.state = config.last.arg)
    /\ [][(StoredOk /\ config'.last.op = "store" /\ config'.last.arg = config.last.arg)
            => /\ config'.last.result = "InvalidArgument"
               /\ config'.state = config.state]_vars

C26_Witness ==
    /\ config.last.op = "store"
    /\ config.last.result = "InvalidArgument"
    /\ config.last.arg = config.state
    /\ config.state.seq = 2
    /\ Len(config.state.data) = 1

\* the errors process_instruction returns before it serializes
EarlyErrors ==
    {"IncorrectProgramId", "MissingRequiredSignature", "InvalidAccountData",
     "InvalidInstructionData", "InvalidArgument"}

\* C27: process_instruction fails with IncorrectProgramId when account 0 is
\* not owned by the config program, whether it signed or not, and otherwise
\* with MissingRequiredSignature when account 0 did not sign; with these
\* and every other error returned before the final serialize the account's
\* data is as it was.
C27_OwnerThenSignerChecked ==
    config.last.op = "process" =>
        /\ ~check_id(config.account.owner) => config.last.result = "IncorrectProgramId"
        /\ (check_id(config.account.owner) /\ ~config.last.signer)
              => config.last.result = "MissingRequiredSignature"
        /\ (check_id(config.account.owner) /\ config.last.signer)
              => config.last.result \notin {"IncorrectProgramId", "MissingRequiredSignature"}
        /\ config.last.result \in EarlyErrors
              => config.account.data = config.last.before_data

C27_Witness ==
    /\ config.last.op = "process"
    /\ ~check_id(config.account.owner)
    /\ ~config.last.signer
    /\ config.last.result = "IncorrectProgramId"
    /\ bincode_deserialize(config.last.data).ok
    /\ bincode_deserialize(config.last.data).value.seq = 1

---------------------------------------------------------------------------
(* Claims about SendTransactionService, under SpecSend and SpecSendLive *)

\* the class the precedence rooted > expired > status gives a queued transaction
ClassOf(s) ==
    LET call == sts.last
    IN  IF s \in call.root_bank.signatures THEN "rooted"
        ELSE IF call.before[s].last_valid_slot < call.root_bank.slot THEN "expired"
        ELSE CASE call.working_bank[s] = "none" -> "retried"
               [] call.working_bank[s] = "err"  -> "failed"
               [] call.working_bank[s] = "ok"   -> "retained"

\* the transactions of the queue before the call that are in class c
InClass(c) == {s \in DOMAIN sts.last.before : ClassOf(s) = c}

\* C28: process_transactions counts every queued transaction once, as
\* rooted, else as expired (last_valid_slot below the root slot), else by
\* its status in the working bank: none retried, error failed, ok retained;
\* the counters add up to the size of the queue before the call, the queue
\* afterwards holds the retried and the retained, unchanged, and what is
\* sent again is each retried transaction, once.
C28_EveryTransactionClassifiedOnce ==
    sts.last.op = "processed" =>
        /\ \A c \in DOMAIN sts.last.result : sts.last.result[c] = Cardinality(InClass(c))
        /\ sts.last.result.rooted + sts.last.result.expired + sts.last.result.retried
             + sts.last.result.failed + sts.last.result.retained
               = Cardinality(DOMAIN sts.last.before)
        /\ DOMAIN sts.transactions = InClass("retried") \cup InClass("retained")
        /\ \A s \in DOMAIN sts.transactions : sts.transactions[s] = sts.last.before[s]
        /\ \A s \in SendSignatures :
             sts.last.sends[s] = IF s \in InClass("retried") THEN 1 ELSE 0

C28_Witness ==
    /\ sts.last.op = "processed"
    /\ DOMAIN sts.last.before = {1, 2}
    /\ 1 \in sts.last.root_bank.signatures
    /\ sts.last.before[1].last_valid_slot < sts.last.root_bank.slot
    /\ sts.last.working_bank[1] = "err"
    /\ sts.last.result.rooted = 1
    /\ sts.last.result.retried = 1
    /\ DOMAIN sts.transactions = {2}

\* C29: once the exit flag is set the retry thread ends and join() returns,
\* with transactions queued or arriving or neither; the thread leaves its
\* loop on the flag alone, and not on a channel whose senders are gone.
C29_ExitFlagEndsRetryThread ==
    /\ sts.exit ~> sts.joined
    /\ [](sts.pc = "done" => sts.exit)
    /\ [](sts.joined => sts.pc = "done")

C29_Witness ==
    /\ sts.joined
    /\ ~sts.connected
    /\ sts.last.op = "unchecked"
    /\ Cardinality(DOMAIN sts.transactions) = MAX_TRANSACTION_QUEUE_SIZE

---------------------------------------------------------------------------
(* Claims about bs91, under SpecBs91 *)

\* the offsets (from 1) of the separators in an encoded u64
SeparatorAt == {3, 6, 9, 12}

WellFormed(s) ==
    /\ Len(s) = 14
    /\ \A i \in 1..14 :
          IF i \in SeparatorAt THEN s[i] = 47
          ELSE \E k \in 1..91 : s[i] = BASE91_CHARSET[k]

\* C30: encode_u64 keeps the order strictly: for u64 values a < b the
\* encoding of a is below the encoding of b in the byte-wise lexical order,
\* so different values have different encodings; every encoding has 14
\* bytes, with '/' at offsets 2, 5, 8 and 11 and nowhere else
C30_EncodeKeepsOrder ==
    bs91.pc = "done" =>
       /\ U64_lt(bs91.a, bs91.b) => str_lt(bs91.ea, bs91.eb)
       /\ bs91.a # bs91.b => bs91.ea # bs91.eb
       /\ bs91.a = bs91.b => bs91.ea = bs91.eb
       /\ WellFormed(bs91.ea)
       /\ WellFormed(bs91.eb)

\* 90 and 91 encoded: "  /  /  /  / ~" and "  /  /  /  /! "
C30_Witness ==
    /\ bs91.pc = "done"
    /\ bs91.a = <<90, 0, 0, 0>>
    /\ bs91.b = <<91, 0, 0, 0>>
    /\ bs91.ea = <<32, 32, 47, 32, 32, 47, 32, 32, 47, 32, 32, 47, 32, 126>>
    /\ bs91.eb = <<32, 32, 47, 32, 32, 47, 32, 32, 47, 32, 32, 47, 33, 32>>

---------------------------------------------------------------------------
(* More claims about the service thread, under SpecSyncLive *)

\* the service thread is inside an iteration of its loop
InIteration == sync.pc \in {"sleep", "hash_lock", "hash", "tick_lock", "tick"}

\* C31: the exit flag is read only at the top of the loop: the thread leaves
\* the loop from there and from nowhere else; an iteration that has begun
\* does its remaining batches and its tick() also with the flag set, when
\* the mutex does not keep passing the thread over; and with the flag set
\* tick() is called once more at most.
C31_ExitReadAtIterationStart ==
    /\ [][sync'.pc = "store" /\ sync.pc # "store" => sync.pc = "while" /\ sync.exit]_vars
    /\ [][InIteration /\ sync.exit /\ sync'.pc # sync.pc =>
            sync'.pc \in {"hash_lock", "hash", "tick_lock", "tick", "while"}]_vars
    /\ [][sync'.pc = "while" /\ sync.pc # "while" =>
            /\ sync.pc = "tick"
            /\ sync.num_hashes = 0
            /\ sync'.section.ticks = 1]_vars
    /\ SF_vars(SyncLock) =>
         ((InIteration /\ sync.exit) ~> (sync.pc = "while" /\ sync.late_ticks = 1))
    /\ [](sync.late_ticks <= 1)

\* the flag was set with more than a batch left in the iteration, which has
\* run to its tick
C31_Witness ==
    /\ sync.late_ticks = 1
    /\ sync.pc = "while"
    /\ sync.hashes_per_tick = 2 * NUM_HASHES_PER_BATCH + 2
    /\ sync.section.ticks = 1

---------------------------------------------------------------------------
(* More claims about num_will_fit, under SpecFitLive *)

\* the least k with 2^k >= n
CeilLog2(n) == CHOOSE k \in 0..n : 2^k >= n /\ \A j \in 0..(k - 1) : 2^j < n

\* C32: num_will_fit returns on every slice and every size function, after
\* at most ceil(log2(n)) + 2 calls of the size function for n items.
C32_LogarithmicSizeCalls ==
    /\ <>(fit.pc = "return")
    /\ [](fit.sizes # <<>> => fit.calls <= CeilLog2(Len(fit.sizes)) + 2)
    /\ [](fit.sizes = <<>> => fit.calls = 0)

\* four items, the size function called four times: on 4, 2, 3 and 3 items
\* or on 4, 2, 1 and 1
C32_Witness ==
    /\ fit.pc = "return"
    /\ Len(fit.sizes) = 4
    /\ fit.calls = CeilLog2(4) + 2

---------------------------------------------------------------------------
(* Claims about next_entries and next_entries_mut, under SpecEntry *)

\* next_entries or next_entries_mut has been called on transactions, not
\* none, each of which fits in an entry
NextEntriesCalled ==
    /\ epc # "start"
    /\ args.fn \in {"next_entries", "next_entries_mut"}
    /\ args.transactions # <<>>
    /\ \A i \in 1..Len(args.transactions) : SizeCheck(<<args.transactions[i]>>)

\* entries.verify(&start_hash)
EntriesVerify(s, start_hash) ==
    LET pairs == entry_pairs(s, start_hash)
    IN  \A i \in DOMAIN pairs : pair_verifies(pairs[i])

\* C33: next_entries(start_hash, n, txs) on transactions that each fit
\* returns entries whose transactions, joined in order, are txs; the first
\* has num_hashes max(n, 1), the later ones 1; the entries verify against
\* start_hash; next_entries_mut leaves the caller's hash at the last entry's
\* hash and the caller's num_hashes at 0.
C33_NextEntriesChain ==
    NextEntriesCalled =>
        /\ epc = "returned"
        /\ entries # <<>>
        /\ Concat([k \in 1..Len(entries) |-> entries[k].transactions]) = args.transactions
        /\ entries[1].num_hashes = IF args.num_hashes > 1 THEN args.num_hashes ELSE 1
        /\ \A k \in 2..Len(entries) : entries[k].num_hashes = 1
        /\ EntriesVerify(entries, args.prev_hash)
        /\ args.fn = "next_entries_mut" =>
              cursor = [start_hash |-> entries[Len(entries)].hash, num_hashes |-> 0]
        /\ args.fn = "next_entries" =>
              cursor = [start_hash |-> args.prev_hash, num_hashes |-> args.num_hashes]

\* two transactions too large for one entry, made into two entries
C33_Witness ==
    /\ NextEntriesCalled
    /\ args.fn = "next_entries_mut"
    /\ args.num_hashes = 2
    /\ Len(entries) = 2
    /\ entries[1].num_hashes = 2
    /\ entries[2].num_hashes = 1
    /\ cursor.start_hash = entries[2].hash

---------------------------------------------------------------------------
(* Claims about the sizes of the entries made, under SpecEntry *)

\* the entries a call has made: the one of Entry::new or Entry::new_mut, or
\* those of next_entries
Made ==
    IF epc = "built" /\ attack.kind = "none" THEN <<entry>>
    ELSE IF epc = "returned" THEN entries
    ELSE <<>>

\* the entries of a blob: the length its data begins with
BlobEntries(blob) == blob.data[1]

BlobsHoldEntries(es) ==
    LET r == to_blobs(es)
    IN  /\ ~r.diverges
        /\ r.blobs # <<>>
        /\ \A k \in 1..Len(r.blobs) : BlobEntries(r.blobs[k]) >= 1

\* C34: the size Entry::new checks is the size to_blobs measures for the
\* entry alone, so that every entry made is within BLOB_DATA_SIZE for
\* to_blobs as well; to_blobs returns on the entries made, and on the
\* sequences made of them, every blob holding an entry at least.
C34_SizeMeasuresAgree ==
    /\ \A k \in 1..Len(Made) :
          /\ serialized_size_entries(<<Made[k]>>)
                = serialized_to_blob_size(Made[k].transactions)
          /\ serialized_size_entries(<<Made[k]>>) <= BLOB_DATA_SIZE
          /\ BlobsHoldEntries(<<Made[k]>>)
          /\ BlobsHoldEntries(<<Made[k], Made[k]>>)
    /\ Made # <<>> =>
          /\ BlobsHoldEntries(Made)
          /\ BlobsHoldEntries(Made \o Made)

\* two entries of next_entries, each with a transaction of the largest
\* size, that to_blobs puts in a blob each
C34_Witness ==
    /\ epc = "returned"
    /\ Len(entries) = 2
    /\ serialized_size_entries(entries) > BLOB_DATA_SIZE
    /\ Len(to_blobs(entries).blobs) = 2
    /\ ~to_blobs(entries).diverges

---------------------------------------------------------------------------
(* Claims about an item that does not fit, under SpecChunk *)

\* the first item of the rest is over the limit alone
FirstOversized ==
    /\ chunking.pc = "loop"
    /\ chunking.chunk_start < Len(chunking.items)
    /\ chunking.size[<<chunking.items[chunking.chunk_start + 1]>>] > chunking.max_size

\* the size function does not decrease as the rest's prefix grows
RestPrefixMonotone ==
    \A j \in (chunking.chunk_start + 1)..(Len(chunking.items) - 1) :
        chunking.size[SubSeq(chunking.items, chunking.chunk_start + 1, j)]
            <= chunking.size[SubSeq(chunking.items, chunking.chunk_start + 1, j + 1)]

\* an iteration that hands the converter an empty slice and leaves
\* chunk_start where it was
NoProgress ==
    /\ chunking'.chunk_start = chunking.chunk_start
    /\ chunking'.result = Append(chunking.result, <<>>)
    /\ chunking'.pc = "loop"

\* a transaction over the payload limit alone, and what next_entries
\* makes of it
OversizedTransaction == [signatures |-> <<1>>, message |-> 7]

NextEntriesOfOversized == next_entries(HashDefault, 0, <<OversizedTransaction>>)

\* C35 as stated: whenever the first remaining item is over the limit alone,
\* num_will_fit returns 0, the iteration makes no progress and the loop
\* does not end.
C35_OversizedItemStalls ==
    /\ [][FirstOversized /\ chunking'.result # chunking.result => NoProgress]_vars
    /\ [](FirstOversized => [](chunking.pc # "done"))
    /\ [](FirstOversized =>
            num_will_fit(SubSeq(chunking.items, chunking.chunk_start + 1, Len(chunking.items)),
                         chunking.max_size, chunking.size) = 0)

\* C35 amended: the same for a size function that does not decrease as the
\* prefix of the rest grows, as serialized sizes do; no failure is reported,
\* and next_entries on such a transaction goes on making entries without
\* transactions.
C35_OversizedItemStallsIfMonotone ==
    /\ [][FirstOversized /\ RestPrefixMonotone /\ chunking'.result # chunking.result
            => NoProgress]_vars
    /\ []((FirstOversized /\ RestPrefixMonotone) => [](chunking.pc # "done"))
    /\ []((FirstOversized /\ RestPrefixMonotone) =>
            /\ num_will_fit(SubSeq(chunking.items, chunking.chunk_start + 1,
                                   Len(chunking.items)),
                            chunking.max_size, chunking.size) = 0
            /\ (Len(chunking.result) <= Len(chunking.items) => ENABLED ChunkIterate))
    /\ [](/\ ~SizeCheck(<<OversizedTransaction>>)
          /\ NextEntriesOfOversized.outcome = "diverges"
          /\ NextEntriesOfOversized.entries # <<>>
          /\ \A k \in 1..Len(NextEntriesOfOversized.entries) :
                NextEntriesOfOversized.entries[k].transactions = <<>>)

\* one item handed over, the next over the limit, and two empty slices
\* handed to the converter since
C35_Witness ==
    /\ FirstOversized /\ RestPrefixMonotone
    /\ chunking.chunk_start = 1
    /\ Len(chunking.result) = 3
    /\ chunking.result[2] = <<>>
    /\ chunking.result[3] = <<>>

---------------------------------------------------------------------------
(* Claims about num_hashes 0 on an entry with transactions, under SpecEntry *)

\* the entry with its num_hashes replaced
WithNumHashes(e, n) == [e EXCEPT !.num_hashes = n]

\* C36: for an entry with transactions, whatever its hash, verify gives the
\* same answer with num_hashes 0 as with num_hashes 1, against every start
\* hash; an entry made with num_hashes 1 whose num_hashes is then set to 0
\* verifies as before, though it has transactions and no hash counted.
C36_ZeroHashesVerifiesAsOne ==
    /\ (epc = "built" /\ entry.transactions # <<>>) =>
          \A h \in StartHashes :
             Entry_verify(WithNumHashes(entry, 0), h) = Entry_verify(WithNumHashes(entry, 1), h)
    /\ (checked.done /\ attack.kind = "zero") =>
          /\ entry.num_hashes = 0 /\ entry.transactions # <<>>
          /\ checked.ok = Entry_verify(WithNumHashes(entry, 1), checked.start_hash)
          /\ checked.start_hash = args.prev_hash => checked.ok

C36_Witness ==
    /\ checked.done /\ attack.kind = "zero"
    /\ entry.num_hashes = 0
    /\ Len(entry.transactions) = 2
    /\ checked.start_hash = args.prev_hash
    /\ checked.ok

---------------------------------------------------------------------------
(* More claims about SendTransactionService, under SpecSend and SpecSendLive *)

\* the queue with transaction_info at its signature
Inserted(transactions, transaction_info) ==
    [s \in DOMAIN transactions \cup {transaction_info.signature} |->
       IF s = transaction_info.signature THEN transaction_info ELSE transactions[s]]

\* C37: the queue never holds more than MAX_TRANSACTION_QUEUE_SIZE
\* transactions; a transaction received goes into the queue when retry is
\* enabled for it and the queue holds fewer than the maximum, and in no
\* other case; it is sent once on receipt, queued or not.
C37_QueueWithinMaximum ==
    /\ Cardinality(DOMAIN sts.transactions) <= MAX_TRANSACTION_QUEUE_SIZE
    /\ \A s \in DOMAIN sts.transactions :
          sts.transactions[s].retry_enabled /\ sts.transactions[s].signature = s
    /\ sts.last.op = "received" =>
          /\ sts.transactions =
                IF sts.last.info.retry_enabled
                     /\ Cardinality(DOMAIN sts.last.before) < MAX_TRANSACTION_QUEUE_SIZE
                  THEN Inserted(sts.last.before, sts.last.info)
                  ELSE sts.last.before
          /\ sts.last.sends = [NoSends EXCEPT ![sts.last.info.signature] = 1]
    /\ sts.last.op \in {"timeout", "disconnected", "unchecked"} =>
          /\ sts.transactions = sts.last.before
          /\ sts.last.sends = NoSends

\* a transaction with retry enabled arrives at a full queue that does not
\* hold it: it is sent and not queued
C37_Witness ==
    /\ sts.last.op = "received"
    /\ Cardinality(DOMAIN sts.last.before) = MAX_TRANSACTION_QUEUE_SIZE
    /\ sts.last.info.retry_enabled
    /\ sts.last.info.signature \notin DOMAIN sts.last.before
    /\ sts.transactions = sts.last.before
    /\ sts.last.sends[sts.last.info.signature] = 1

\* the queue holds at signature s a transaction that the root bank's slot
\* has passed
Expired(s) ==
    /\ s \in DOMAIN sts.transactions
    /\ sts.transactions[s].last_valid_slot < sts.root_slot

\* a step of the thread in which process_transactions runs
StatusCheck ==
    /\ SendCheck
    /\ sts'.last.op = "processed"

\* C38: if status checks keep running, a queued transaction whose
\* last_valid_slot the root bank's slot has come to exceed leaves the queue;
\* the first status check that finds it expired drops it without sending
\* it; and a status check sends a transaction at most once, and only one
\* that stays queued.
C38_ExpiredTransactionLeavesQueue ==
    /\ \A s \in SendSignatures :
          []<><<StatusCheck>>_vars => []<>(~Expired(s))
    /\ [][StatusCheck =>
            \A s \in DOMAIN sts.transactions :
               sts.transactions[s].last_valid_slot < sts.root_slot =>
                  /\ s \notin DOMAIN sts'.transactions
                  /\ sts'.last.sends[s] = 0]_vars
    /\ [](sts.last.op = "processed" =>
            \A s \in SendSignatures :
               /\ sts.last.sends[s] <= 1
               /\ sts.last.sends[s] = 1 => s \in DOMAIN sts.transactions)

\* a status check at root slot 1 has dropped an expired transaction and
\* sent another, which stays queued
C38_Witness ==
    /\ sts.last.op = "processed"
    /\ sts.root_slot = 1
    /\ sts.last.result.expired = 1
    /\ \E s \in DOMAIN sts.transactions :
          sts.last.sends[s] = 1 /\ sts.transactions[s].last_valid_slot = 1

---------------------------------------------------------------------------
(* Claims about injest_block, under SpecHistory *)

\* the addresses of a block that get a by-addr file
BlockAddresses(block) ==
    {a \in UNION {{t.account_keys[j] : j \in 1..Len(t.account_keys)} :
                     t \in {block.transactions[i] : i \in 1..Len(block.transactions)}} :
       ~is_sysvar_id(a)}

\* the signatures of the transactions of a block that name an address, in
\* the order of the block
RECURSIVE SignaturesNaming(_, _)
SignaturesNaming(transactions, address) ==
    IF transactions = <<>> THEN <<>>
    ELSE LET t == Head(transactions)
         IN  (IF \E j \in 1..Len(t.account_keys) : t.account_keys[j] = address
                THEN <<t.signatures[1]>> ELSE <<>>)
               \o SignaturesNaming(Tail(transactions), address)

\* the tx-map and by-addr paths of the block of a slot
IndexPaths(block, slot) ==
    {tx_map_path(block.transactions[i].signatures[1]) : i \in 1..Len(block.transactions)}
      \cup {by_addr_path(a, slot) : a \in BlockAddresses(block)}

\* every tx-map and by-addr file of the block of a slot is there, with what
\* injest_block writes to it
IndexWritten(files, block, slot) ==
    /\ \A i \in 1..Len(block.transactions) :
          LET path == tx_map_path(block.transactions[i].signatures[1])
          IN  path \in DOMAIN files /\ files[path] = <<"locator", <<slot, i - 1>>>>
    /\ \A a \in BlockAddresses(block) :
          LET path == by_addr_path(a, slot)
          IN  /\ path \in DOMAIN files
              /\ files[path] = <<"signatures", SignaturesNaming(block.transactions, a)>>

\* a step that is a call of injest_block
InjestCalled == history.pc = "ready" /\ history'.calls = history.calls + 1

\* C39: a call of injest_block writes the block file last, after every
\* tx-map and by-addr file of the block, and changes no file when the block
\* file exists; so whenever block_exists(slot) holds, every tx-map and
\* by-addr file of that block has been written, and after a call that
\* returned an error block_exists(slot) is false and the next call for the
\* slot starts the writes again.
C39_BlockFileWrittenLast ==
    /\ [](history.pc # "idle" =>
            /\ \A k \in 1..Len(history.writes) :
                  history.writes[k] = block_path(history.slot) =>
                     /\ k = Len(history.writes)
                     /\ history.pc = "ready"
                     /\ IndexPaths(history.block, history.slot)
                           \subseteq {history.writes[j] : j \in 1..(k - 1)}
            /\ \A slot \in HistorySlots :
                  block_exists(history.files, slot) =>
                     IndexWritten(history.files, ConfirmedBlock(history.ledger, slot), slot)
            /\ history.result = "Err" => ~block_exists(history.files, history.slot)
            /\ history.result = "Ok" => block_exists(history.files, history.slot))
    /\ [][InjestCalled =>
            IF block_exists(history.files, history'.slot)
              THEN /\ history'.files = history.files
                   /\ history'.pc = "ready"
                   /\ history'.result = "Ok"
              ELSE /\ history'.files = history.files
                   /\ history'.pc = "running"
                   /\ history'.index = 0
                   /\ history'.writes = <<>>]_vars

\* the second call for a slot, after a call that failed, has written two
\* tx-map files, the by-addr files and then the block file
C39_Witness ==
    /\ history.pc = "ready"
    /\ history.slot \in history.failed
    /\ history.result = "Ok"
    /\ Len(history.block.transactions) = 2
    /\ Len(history.writes) >= 4
    /\ history.writes[Len(history.writes)] = block_path(history.slot)
    /\ block_exists(history.files, history.slot)

---------------------------------------------------------------------------
(* A claim about ConfigTransaction::new_config, under SpecConfig *)

\* C40: the space that the transaction of ConfigTransaction::new_config(..,
\* data_len, ..) asks for is ConfigState::max_size(data_len), the size of
\* the data of the account that create_config_account(data_len, ..) makes.
C40_RequestedSpaceIsMaxSize ==
    config.last.op = "new_config" =>
       /\ config.last.instruction.space = ConfigState_max_size(config.last.data_len)
       /\ config.last.instruction.space
             = Len(create_config_account(config.last.data_len,
                                         config.last.instruction.lamports).data)

\* what the code asks for: max_size applied twice, which is 16 bytes more
\* than the serialized size of a ConfigState of data_len bytes
C40_RequestedSpaceIsMaxSizeTwice ==
    config.last.op = "new_config" =>
       /\ config.last.instruction.space
             = ConfigState_max_size(ConfigState_max_size(config.last.data_len))
       /\ config.last.instruction.space = config.last.data_len + 32
       /\ ConfigState_max_size(config.last.data_len) = config.last.data_len + 16
       /\ config.last.instruction.program_id = CONFIG_PROGRAM_ID

\* new_config for two bytes of data asks for 34 bytes, where a ConfigState
\* of two bytes serializes to 18
C40_Witness ==
    /\ config.last.op = "new_config"
    /\ config.last.data_len = 2
    /\ config.last.instruction.space = 34
    /\ ConfigState_max_size(2) = 18

=============================================================================
